---- MODULE Spec2Model ----
(***************************************************************************)
(* map_scatter: field-graph compiler and program cache, plan executor and  *)
(* event stream.                                                           *)
(*                                                                         *)
(* Numbers.  f32 values are fixed-point integers with Scale units per 1.0, *)
(* so 0.1 is Scale \div 10 and a weight lies in 0..Scale.  The 32-bit RNG  *)
(* output is an integer in 0..RngMod-1, RngMod standing for 2^32.          *)
(***************************************************************************)
EXTENDS Integers, Sequences, FiniteSets, TLC

\* ------------------------------------------------------------------ bounds
RngMod == 100
MaxLayers == 2
NumSeeds == 2
MaxCalls == 3
NumThreads == 2
MaxInputs == 2
MaxSamples == 4
RasterCells == 2
MaxKinds == 3                  \* kind evaluations handed to a selection
MaxStamp == 1                  \* overlay brush radius in pixels

Scale == RngMod

\* ------------------------------------------------------------ small helpers
Min2(a, b) == IF a <= b THEN a ELSE b
Max2(a, b) == IF a >= b THEN a ELSE b
ClampI(v, lo, hi) == Max2(lo, Min2(v, hi))
Range(s) == {s[i] : i \in 1..Len(s)}
Perms(S) == {s \in [1..Cardinality(S) -> S] : \A i, j \in 1..Cardinality(S) : i # j => s[i] # s[j]}

RECURSIVE SumSeq(_)
SumSeq(s) == IF s = <<>> THEN 0 ELSE Head(s) + SumSeq(Tail(s))

\* ---------------------------------------------------------------- NodeSpec
\* fieldgraph/node.rs: one record shape for every variant; p1, p2 are the
\* numeric parameters (value / factor / min,max / edge0,edge1 / exp /
\* threshold,d_max), tex and ch the Texture parameters.
NodeRec(op, ins, a, b, t, c) == [op |-> op, inputs |-> ins, p1 |-> a, p2 |-> b, tex |-> t, ch |-> c]
NConstant(v) == NodeRec("Constant", <<>>, v, 0, "", "R")
NTexture(t, c) == NodeRec("Texture", <<>>, 0, 0, t, c)
NAdd(ins) == NodeRec("Add", ins, 0, 0, "", "R")
NSub(ins) == NodeRec("Sub", ins, 0, 0, "", "R")
NMul(ins) == NodeRec("Mul", ins, 0, 0, "", "R")
NMin(ins) == NodeRec("Min", ins, 0, 0, "", "R")
NMax(ins) == NodeRec("Max", ins, 0, 0, "", "R")
NInvert(ins) == NodeRec("Invert", ins, 0, 0, "", "R")
NEdtNormalize(ins, threshold, d_max) == NodeRec("EdtNormalize", ins, threshold, d_max, "", "R")
NScale(ins, f) == NodeRec("Scale", ins, f, 0, "", "R")
NClamp(ins, lo, hi) == NodeRec("Clamp", ins, lo, hi, "", "R")

NodeInputs(node) == IF node.op \in {"Constant", "Texture"} THEN <<>> ELSE node.inputs

VariadicOps == {"Add", "Sub", "Mul", "Min", "Max"}
UnaryOps == {"Invert", "Scale", "Clamp", "SmoothStep", "Pow", "EdtNormalize"}

NoSem == [x \in {} |-> "Gate"]

\* Kind::new
MkKind(id, spec) == [id |-> id, spec |-> spec]

\* CompileOptions: force_bake is a set of field ids.
MkOpts(bake) == [force_bake |-> bake]
DefaultOpts == MkOpts({})

\* Every field id the model uses, in the byte order String::cmp sorts by.
FieldOrder == <<"g", "g2", "k", "m", "missing", "p", "p2", "x", "y">>
SortIds(S) == SelectSeq(FieldOrder, LAMBDA f : f \in S)

\* FieldGraphSpec: nodes and semantics are hash maps keyed by field id; iter
\* is the order in which this instance of the nodes map iterates.
MkSpec(nodes, semantics) ==
  [nodes |-> nodes, semantics |-> semantics, iter |-> SortIds(DOMAIN nodes)]
\* The same spec held in a map instance that iterates in another order.
WithIter(spec, order) == [spec EXCEPT !.iter = order]

\* ------------------------------------------------------------- fingerprint
\* What DefaultHasher is fed, as a flat token stream; strings and integers
\* are written one after the other, with no length prefix for the input
\* list or for the force_bake list.  The 64-bit SipHash of the stream is
\* taken to be collision-free, so the fingerprint is the stream itself.
TokStr(s) == [k |-> "str", s |-> s, n |-> 0]
TokU8(n) == [k |-> "u8", s |-> "", n |-> n]
TokBits(n) == [k |-> "u32", s |-> "", n |-> n]

KindTag(op) ==
  CASE op = "Constant" -> 1 [] op = "Texture" -> 2 [] op = "Add" -> 3
    [] op = "Mul" -> 4 [] op = "Min" -> 5 [] op = "Max" -> 6
    [] op = "Invert" -> 7 [] op = "Clamp" -> 8 [] op = "SmoothStep" -> 9
    [] op = "Pow" -> 10 [] op = "EdtNormalize" -> 11 [] op = "Sub" -> 12
    [] op = "Scale" -> 13

SemanticsTag(spec, id) ==
  IF id \in DOMAIN spec.semantics
  THEN (IF spec.semantics[id] = "Gate" THEN 0 ELSE 1)
  ELSE 255

ChannelTag(c) == CASE c = "R" -> 0 [] c = "G" -> 1 [] c = "B" -> 2 [] c = "A" -> 3

ParamTokens(node) ==
  CASE node.op = "Constant" -> <<TokBits(node.p1)>>
    [] node.op = "Texture" -> <<TokStr(node.tex), TokU8(ChannelTag(node.ch))>>
    [] node.op \in {"Scale", "Pow"} -> <<TokBits(node.p1)>>
    [] node.op \in {"Clamp", "SmoothStep", "EdtNormalize"} -> <<TokBits(node.p1), TokBits(node.p2)>>
    [] OTHER -> <<>>

NodeTokens(spec, id) ==
  LET node == spec.nodes[id]
      ins == NodeInputs(node)
  IN <<TokStr(id), TokU8(KindTag(node.op)), TokU8(SemanticsTag(spec, id))>>
       \o [i \in 1..Len(ins) |-> TokStr(ins[i])]
       \o ParamTokens(node)

RECURSIVE ConcatNodeTokens(_, _)
ConcatNodeTokens(spec, ids) ==
  IF ids = <<>> THEN <<>>
  ELSE NodeTokens(spec, Head(ids)) \o ConcatNodeTokens(spec, Tail(ids))

fingerprint(spec, opts) ==
  LET bake == SortIds(opts.force_bake)
  IN ConcatNodeTokens(spec, SortIds(DOMAIN spec.nodes))
       \o [i \in 1..Len(bake) |-> TokStr(bake[i])]

\* ---------------------------------------------------------------- compiler
\* Number of times field n occurs in the input list of node c.
\* How often n occurs, counted once however often it is listed.
InputCount_Distinct(nodes, n, c) ==
  IF \E i \in 1..Len(NodeInputs(nodes[c].spec)) : NodeInputs(nodes[c].spec)[i] = n THEN 1 ELSE 0
\* dependents[n][c]: how often node c lists n among its inputs.
InputCount(nodes, n, c) ==
  LET ins == NodeInputs(nodes[c].spec)
  IN Cardinality({i \in 1..Len(ins) : ins[i] = n})

\* One pass of the `while let Some(n) = q.pop()` loop; `order` is the
\* iteration order of the hash maps.
RECURSIVE TopoLoop(_, _, _, _, _)
TopoLoop(nodes, order, indeg, q, out) ==
  IF q = <<>> THEN out
  ELSE
    LET n == q[Len(q)]
        rest == SubSeq(q, 1, Len(q) - 1)
        children == SelectSeq(order, LAMBDA c : InputCount(nodes, n, c) > 0)
        indeg2 == [c \in DOMAIN indeg |->
                     IF InputCount(nodes, n, c) > 0
                     THEN Max2(0, indeg[c] - InputCount(nodes, n, c))
                     ELSE indeg[c]]
        pushed == SelectSeq(children, LAMBDA c : indeg2[c] = 0)
    IN TopoLoop(nodes, order, indeg2, rest \o pushed, Append(out, n))

\* The iteration order of the node map taken as the order.
topo_sort_IterOrder(nodes, order) ==
  LET indeg == [id \in DOMAIN nodes |-> Len(NodeInputs(nodes[id].spec))]
      q == SelectSeq(order, LAMBDA id : indeg[id] = 0)
      out == TopoLoop(nodes, order, indeg, q, <<>>)
  IN IF Len(out) # Cardinality(DOMAIN nodes)
     THEN [ok |-> FALSE, err |-> <<"Cycle detected or missing nodes">>, topo |-> <<>>]
     ELSE [ok |-> TRUE, err |-> <<>>, topo |-> order]
topo_sort(nodes, order) ==
  LET indeg == [id \in DOMAIN nodes |-> Len(NodeInputs(nodes[id].spec))]
      q == SelectSeq(order, LAMBDA id : indeg[id] = 0)
      out == TopoLoop(nodes, order, indeg, q, <<>>)
  IN IF Len(out) # Cardinality(DOMAIN nodes)
     THEN [ok |-> FALSE, err |-> <<"Cycle detected or missing nodes">>, topo |-> <<>>]
     ELSE [ok |-> TRUE, err |-> <<>>, topo |-> out]

\* validate_node_inputs: <<>> when the arity is right, the error otherwise.
validate_node_inputs(id, node) ==
  LET n == Len(NodeInputs(node))
  IN IF node.op \in VariadicOps /\ n = 0
       THEN <<"requires at least one input", id, node.op>>
     ELSE IF node.op \in UnaryOps /\ n # 1
       THEN <<"requires exactly one input", id, node.op>>
     ELSE <<>>

\* The first error met for node id: an unknown input (in input order), then
\* the arity.
NodeError(spec, id) ==
  LET ins == NodeInputs(spec.nodes[id])
      bad == {i \in 1..Len(ins) : ins[i] \notin DOMAIN spec.nodes}
  IN IF bad # {}
     THEN <<"references unknown input", id, ins[CHOOSE i \in bad : \A j \in bad : i <= j]>>
     ELSE validate_node_inputs(id, spec.nodes[id])

NodeMeta(spec, opts, id) ==
  [id |-> id, spec |-> spec.nodes[id], force_bake |-> id \in opts.force_bake,
   sem |-> IF id \in DOMAIN spec.semantics THEN spec.semantics[id] ELSE "None"]

ProgramNodes(spec, opts) == [id \in DOMAIN spec.nodes |-> NodeMeta(spec, opts, id)]

NoProgram == [pid |-> 0, nodes |-> [x \in {} |-> 0], topo |-> <<>>, iter |-> <<>>]

\* FieldGraphCompiler::compile.  The loop follows the iteration order of
\* spec.nodes; progOrder is the iteration order of the node map the
\* compiler builds, pid names the allocation (the Arc) the program lives in.
compile(spec, opts, progOrder, pid) ==
  LET failing == {i \in 1..Len(spec.iter) : NodeError(spec, spec.iter[i]) # <<>>}
  IN IF failing # {}
     THEN [ok |-> FALSE,
           err |-> NodeError(spec, spec.iter[CHOOSE i \in failing : \A j \in failing : i <= j]),
           program |-> NoProgram]
     ELSE
       LET nodes == ProgramNodes(spec, opts)
           ts == topo_sort(nodes, progOrder)
       IN IF ~ts.ok
          THEN [ok |-> FALSE, err |-> ts.err, program |-> NoProgram]
          ELSE [ok |-> TRUE, err |-> <<>>,
                program |-> [pid |-> pid, nodes |-> nodes, topo |-> ts.topo, iter |-> progOrder]]

is_gate(meta) == meta.sem = "Gate"
is_probability(meta) == meta.sem = "Probability"


\* ------------------------------------------------------------ program cache
\* FieldProgramCache.entries: kind id -> ProgramEntry.
EmptyEntries == [x \in {} |-> 0]
ProgramEntry(program, fp) == [program |-> program, fingerprint |-> fp]

NoneProgram == [some |-> FALSE, program |-> NoProgram]
SomeProgram(pr) == [some |-> TRUE, program |-> pr]

get_for_kind(entries, kind_id) ==
  IF kind_id \in DOMAIN entries THEN SomeProgram(entries[kind_id].program) ELSE NoneProgram

\* entries.insert(key, entry)
MapInsert(m, key, val) == [x \in (DOMAIN m) \cup {key} |-> IF x = key THEN val ELSE m[x]]
MapRemove(m, key) == [x \in (DOMAIN m) \ {key} |-> m[x]]

\* The `entries.get(key)` + `entry.fingerprint == fp` test made under the
\* read lock and again under the write lock.
CacheMatches(entries, key, fp) == key \in DOMAIN entries /\ entries[key].fingerprint = fp

\* get_or_compile without the lookups: every call compiles and inserts.
get_or_compile_NoLookup(entries, kind, opts, progOrder, pid) ==
  LET key == kind.id
      fp == fingerprint(kind.spec, opts)
      c == compile(kind.spec, opts, progOrder, pid)
  IN IF ~c.ok
     THEN [ok |-> FALSE, err |-> c.err, program |-> NoProgram,
           entries |-> entries, compiled |-> TRUE]
     ELSE [ok |-> TRUE, err |-> <<>>, program |-> c.program,
           entries |-> MapInsert(entries, key, ProgramEntry(c.program, fp)),
           compiled |-> TRUE]
\* FieldProgramCache::get_or_compile run by one thread with no other thread
\* in between: the read-locked lookup, the compile, the write-locked
\* re-check and insert.  `compiled` tells whether the compiler ran.
get_or_compile(entries, kind, opts, progOrder, pid) ==
  LET key == kind.id
      fp == fingerprint(kind.spec, opts)
  IN IF CacheMatches(entries, key, fp)
     THEN [ok |-> TRUE, err |-> <<>>, program |-> entries[key].program,
           entries |-> entries, compiled |-> FALSE]
     ELSE
       LET c == compile(kind.spec, opts, progOrder, pid)
       IN IF ~c.ok
          THEN [ok |-> FALSE, err |-> c.err, program |-> NoProgram,
                entries |-> entries, compiled |-> TRUE]
          ELSE IF CacheMatches(entries, key, fp)
          THEN [ok |-> TRUE, err |-> <<>>, program |-> entries[key].program,
                entries |-> entries, compiled |-> TRUE]
          ELSE [ok |-> TRUE, err |-> <<>>, program |-> c.program,
                entries |-> MapInsert(entries, key, ProgramEntry(c.program, fp)),
                compiled |-> TRUE]

\* --------------------------------------------------------------------- RNG
\* The generator behind RngCore::next_u32: a full-period congruential
\* generator over 0..RngMod-1.
NextState(s) == (21 * s + 7) % RngMod

\* `next_u32() as f32`: the largest outputs round up to 2^32.
F32OfU32(n) == IF n = RngMod - 1 THEN RngMod ELSE n

\* sampling::rand01: the value drawn and the generator state after it.
rand01(s) == [value |-> (F32OfU32(NextState(s)) * Scale) \div RngMod, rng |-> NextState(s)]

\* sampling::next_down on the fixed-point grid.
next_down(v) == v - 1

\* ---------------------------------------------------------------- textures
\* A texture is an overlay (data = the set of pixel indices holding 1.0) or
\* the caller's texture "half", whose R channel is 1.0 on the right half of
\* the plane.  layer and run record who built an overlay.
HalfTexture == [kind |-> "half", extent |-> <<0, 0>>, width |-> 0, height |-> 0,
                data |-> {}, layer |-> -1, run |-> 0]
OverlayTexture(extent, w, h, data) ==
  [kind |-> "overlay", extent |-> extent, width |-> w, height |-> h,
   data |-> data, layer |-> -1, run |-> 0]

\* floor(clamp(c / ext + 0.5, 0, 1) * n)
UnitToPixel(c, ext, n) == IF ext # 0 THEN (ClampI(2 * c + ext, 0, 2 * ext) * n) \div (2 * ext) ELSE n \div 2

\* OverlayTexture::sample_domain
sample_domain(t, channel, p) ==
  IF t.width = 0 \/ t.height = 0
  THEN (IF channel = "A" THEN Scale ELSE 0)
  ELSE
    LET x == Min2(UnitToPixel(p[1], t.extent[1], t.width), t.width - 1)
        y == Min2(UnitToPixel(p[2], t.extent[2], t.height), t.height - 1)
        idx == y * t.width + x
    IN CASE channel = "R" -> (IF idx \in t.data THEN Scale ELSE 0)
         [] channel = "A" -> Scale
         [] OTHER -> 0

\* Texture::sample
TextureSample(t, channel, p) ==
  IF t.kind = "overlay" THEN sample_domain(t, channel, p)
  ELSE IF channel = "R" /\ p[1] >= 0 THEN Scale ELSE 0

\* TextureRegistry::sample: unknown ids sample to 0.
RegistrySample(textures, id, channel, p) ==
  IF id \in DOMAIN textures THEN TextureSample(textures[id], channel, p) ELSE 0

\* build_overlay_mask_from_positions_with_shape
build_overlay_mask_from_positions_with_shape(extent, positions, width, height, radius) ==
  IF width * height = 0 THEN OverlayTexture(extent, width, height, {})
  ELSE
    LET Px(pos) == ClampI(UnitToPixel(pos[1], extent[1], width), 0, width - 1)
        Py(pos) == ClampI(UnitToPixel(pos[2], extent[2], height), 0, height - 1)
        Stamped(pos) ==
          {sy * width + sx :
             <<sx, sy>> \in {xy \in (Max2(Px(pos) - radius, 0)..Min2(Px(pos) + radius, width - 1))
                                    \X (Max2(Py(pos) - radius, 0)..Min2(Py(pos) + radius, height - 1)) :
                               (xy[1] - Px(pos)) * (xy[1] - Px(pos)) + (xy[2] - Py(pos)) * (xy[2] - Py(pos))
                                 <= radius * radius}}
    IN OverlayTexture(extent, width, height, UNION {Stamped(positions[i]) : i \in 1..Len(positions)})

\* build_overlay_mask_from_positions_in_domain: positions are taken relative
\* to the domain center.
build_overlay_mask_from_positions_in_domain(extent, center, positions, width, height, radius) ==
  build_overlay_mask_from_positions_with_shape(
    extent,
    [i \in 1..Len(positions) |-> <<positions[i][1] - center[1], positions[i][2] - center[2]>>],
    width, height, radius)

\* ------------------------------------------------------------ field runtime
RECURSIVE eval_field_value(_, _, _, _)
RECURSIVE SampleAll(_, _, _, _)

\* FieldRuntime::sample for a program without baked fields.
sample(program, textures, field, p) == eval_field_value(program, textures, field, p)

SampleAll(program, textures, ins, p) ==
  [i \in 1..Len(ins) |-> sample(program, textures, ins[i], p)]

RECURSIVE FoldMin(_, _)
FoldMin(acc, vs) == IF vs = <<>> THEN acc ELSE FoldMin(Min2(acc, Head(vs)), Tail(vs))
RECURSIVE FoldMax(_, _)
FoldMax(acc, vs) == IF vs = <<>> THEN acc ELSE FoldMax(Max2(acc, Head(vs)), Tail(vs))
RECURSIVE FoldMul(_, _)
FoldMul(acc, vs) == IF vs = <<>> THEN acc ELSE FoldMul((acc * Head(vs)) \div Scale, Tail(vs))

eval_field_value(program, textures, field, p) ==
  IF field \notin DOMAIN program.nodes THEN 0
  ELSE
    LET node == program.nodes[field].spec
        vs == SampleAll(program, textures, NodeInputs(node), p)
        first == IF vs = <<>> THEN 0 ELSE vs[1]
    IN CASE node.op = "Constant" -> node.p1
         [] node.op = "Texture" -> RegistrySample(textures, node.tex, node.ch, p)
         [] node.op = "Add" -> SumSeq(vs)
         [] node.op = "Sub" -> IF vs = <<>> THEN 0 ELSE 2 * vs[1] - SumSeq(vs)
         [] node.op = "Scale" -> (first * node.p1) \div Scale
         [] node.op = "Mul" -> FoldMul(Scale, vs)
         [] node.op = "Min" -> FoldMin(1000 * Scale, vs)
         [] node.op = "Max" -> FoldMax(-1000 * Scale, vs)
         [] node.op = "Invert" -> Scale - first
         [] node.op = "Clamp" -> ClampI(first, node.p1, node.p2)
         [] OTHER -> 0

\* ----------------------------------------------------------------- sampling
\* UniformRandomSampling::generate: positions relative to the domain
\* center and the generator state after the 2 * count draws.
RECURSIVE UniformPoints(_, _, _, _)
UniformPoints(n, w, h, s) ==
  IF n = 0 THEN [positions |-> <<>>, rng |-> s]
  ELSE
    LET u == rand01(s)
        v == rand01(u.rng)
        x == ClampI((u.value * w) \div Scale - w \div 2, -(w \div 2), next_down(w \div 2))
        y == ClampI((v.value * h) \div Scale - h \div 2, -(h \div 2), next_down(h \div 2))
        rest == UniformPoints(n - 1, w, h, v.rng)
    IN [positions |-> <<(<<x, y>>)>> \o rest.positions, rng |-> rest.rng]

generate(count, extent, s) ==
  IF count = 0 \/ extent[1] <= 0 \/ extent[2] <= 0
  THEN [positions |-> <<>>, rng |-> s]
  ELSE UniformPoints(count, extent[1], extent[2], s)

\* ---------------------------------------------------------------- selection
\* KindEvaluation
KindEvaluation(kind, allowed, weight) == [kind |-> kind, allowed |-> allowed, weight |-> weight]
NoKind == [some |-> FALSE, id |-> ""]
SomeKind(kind) == [some |-> TRUE, id |-> kind.id]

\* The `for r in &placeable` walk; roll is kept in units of 1/Scale^2.
RECURSIVE RollWalk(_, _)
RollWalk(placeable, roll) ==
  IF placeable = <<>> THEN NoKind
  ELSE IF roll - Head(placeable).weight * Scale <= 0 THEN SomeKind(Head(placeable).kind)
  ELSE RollWalk(Tail(placeable), roll - Head(placeable).weight * Scale)

pick_weighted_random(results, s) ==
  LET placeable == SelectSeq(results, LAMBDA r : r.allowed)
      total_weight == SumSeq([i \in 1..Len(placeable) |-> placeable[i].weight])
  IN IF placeable = <<>> \/ total_weight <= 0
     THEN [picked |-> NoKind, rng |-> s]
     ELSE
       LET d == rand01(s)
           walked == RollWalk(placeable, d.value * total_weight)
       IN [picked |-> IF walked.some THEN walked ELSE SomeKind(placeable[1].kind),
           rng |-> d.rng]

\* Iterator::max_by returns the last of several maximal elements.
pick_highest_probability(results) ==
  LET placeable == SelectSeq(results, LAMBDA r : r.allowed)
  IN IF placeable = <<>> THEN NoKind
     ELSE
       LET best == CHOOSE i \in 1..Len(placeable) :
                     /\ \A j \in 1..Len(placeable) : placeable[j].weight <= placeable[i].weight
                     /\ \A j \in (i + 1)..Len(placeable) : placeable[j].weight < placeable[i].weight
       IN SomeKind(placeable[best].kind)


\* ------------------------------------------------------------ plan universe
\* scatter/mod.rs
DEFAULT_PROBABILITY_WHEN_MISSING == Scale \div 10

\* RunConfig: a 4 x 4 domain centered on the origin.
Config ==
  [domain_extent |-> <<4 * Scale, 4 * Scale>>, domain_center |-> <<0, 0>>,
   chunk_extent |-> 4 * Scale, raster_cell_size |-> Scale, grid_halo |-> 0]

\* base_textures
BaseTextures == "half" :> HalfTexture

SpecAlways == MkSpec("p" :> NConstant(Scale), "p" :> "Probability")
SpecHalf == MkSpec("p" :> NConstant(Scale \div 2), "p" :> "Probability")
SpecBlocked ==
  MkSpec(("g" :> NConstant(0)) @@ ("p" :> NConstant(Scale)),
         ("g" :> "Gate") @@ ("p" :> "Probability"))
SpecTwoGates ==
  MkSpec(("g" :> NTexture("mask_A", "R")) @@ ("g2" :> NTexture("half", "R")),
         ("g" :> "Gate") @@ ("g2" :> "Gate"))
SpecTwoProb ==
  MkSpec(("p" :> NConstant(Scale)) @@ ("p2" :> NConstant(0)),
         ("p" :> "Probability") @@ ("p2" :> "Probability"))
SpecBad == MkSpec(("x" :> NAdd(<<"missing">>)) @@ ("y" :> NInvert(<<>>)), NoSem)

KAlways == MkKind("always", SpecAlways)
KHalf == MkKind("half", SpecHalf)
KBlocked == MkKind("blocked", SpecBlocked)
KTwoGates == MkKind("gated", SpecTwoGates)
KTwoProb == MkKind("twoprob", SpecTwoProb)
KBad == MkKind("bad", SpecBad)
KBadRev == MkKind("bad", WithIter(SpecBad, <<"y", "x">>))

NoSize == [some |-> FALSE, w |-> 0, h |-> 0]
SomeSize(w, h) == [some |-> TRUE, w |-> w, h |-> h]
NoRadius == [some |-> FALSE, r |-> 0]
SomeRadius(r) == [some |-> TRUE, r |-> r]

\* Layer; sampling is UniformRandomSampling::new(count).
MkLayer(id, kinds, count, size, radius, strategy) ==
  [id |-> id, kinds |-> kinds, count |-> count, overlay_mask_size_px |-> size,
   overlay_brush_radius_px |-> radius, selection_strategy |-> strategy]

LayerLib ==
  { MkLayer("A", <<KHalf, KTwoGates>>, 2, SomeSize(2, 2), SomeRadius(0), "WeightedRandom"),
    MkLayer("B", <<KTwoGates, KAlways>>, 2, NoSize, NoRadius, "HighestProbability"),
    MkLayer("E", <<>>, 1, SomeSize(2, 2), SomeRadius(0), "WeightedRandom"),
    MkLayer("F", <<KBad>>, 1, SomeSize(2, 2), SomeRadius(1), "WeightedRandom"),
    MkLayer("G", <<KBlocked, KTwoProb>>, 1, SomeSize(0, 2), SomeRadius(1), "WeightedRandom"),
    MkLayer("H", <<KBadRev, KAlways>>, 1, SomeSize(2, 2), SomeRadius(-1), "HighestProbability") }
\* A layer whose one kind is blocked at every candidate.
LayerK == MkLayer("K", <<KBlocked>>, 2, NoSize, NoRadius, "HighestProbability")
LayerOf(id) == CHOOSE l \in LayerLib : l.id = id


\* The plans run: every sequence of library layers up to MaxLayers, and the
\* blocked layer alone and after a layer that places.
Plans ==
  UNION {[1..n -> LayerLib] : n \in 0..MaxLayers}
    \cup {<<LayerK>>, <<LayerOf("A"), LayerK>>, <<LayerOf("H"), LayerK>>}
Seeds == {6 + i : i \in 1..NumSeeds}

\* ------------------------------------------------------------------- events
EventKinds ==
  {"RunStarted", "RunFinished", "LayerStarted", "LayerFinished",
   "PositionEvaluated", "PlacementMade", "OverlayGenerated", "Warning"}

\* The filters a sink answers `wants` with: ScatterEventFilter::verbose(),
\* ScatterEventFilter::high_level(), and the sink that takes nothing.
SinkFilters ==
  {EventKinds, EventKinds \ {"PositionEvaluated", "PlacementMade"}, {}}

Placement(kind_id, position) == [kind_id |-> kind_id, position |-> position]
RunResult(placements, evaluated, rejected) ==
  [placements |-> placements, positions_evaluated |-> evaluated, positions_rejected |-> rejected]
EmptyResult == RunResult(<<>>, 0, 0)

NoSummary == [some |-> FALSE, name |-> "", w |-> 0, h |-> 0]
OverlaySummary(name, w, h) == [some |-> TRUE, name |-> name, w |-> w, h |-> h]
NoOverlay == [some |-> FALSE, name |-> "", texture |-> OverlayTexture(<<0, 0>>, 0, 0, {})]
SomeOverlay(name, texture) == [some |-> TRUE, name |-> name, texture |-> texture]

\* ScatterEvent: one record shape, unused fields at their defaults.
Ev0 ==
  [type |-> "", index |-> -1, id |-> "", kinds |-> <<>>, layer_count |-> 0,
   overlay_mask_size_px |-> NoSize, overlay_brush_radius_px |-> NoRadius,
   position |-> <<0, 0>>, evaluations |-> <<>>, max_weight |-> 0,
   placement |-> Placement("", <<0, 0>>), result |-> EmptyResult,
   overlay |-> NoSummary, context |-> <<>>, message |-> <<>>]

EvRunStarted(n) == [Ev0 EXCEPT !.type = "RunStarted", !.layer_count = n]
EvRunFinished(res) == [Ev0 EXCEPT !.type = "RunFinished", !.result = res]
\* LayerStarted carrying the index of the first layer whatever the layer.
EvLayerStarted_FirstIndex(idx, layer) ==
  [Ev0 EXCEPT !.type = "LayerStarted", !.index = 0, !.id = layer.id,
              !.kinds = [i \in 1..Len(layer.kinds) |-> layer.kinds[i].id],
              !.overlay_mask_size_px = layer.overlay_mask_size_px,
              !.overlay_brush_radius_px = layer.overlay_brush_radius_px]
EvLayerStarted(idx, layer) ==
  [Ev0 EXCEPT !.type = "LayerStarted", !.index = idx, !.id = layer.id,
              !.kinds = [i \in 1..Len(layer.kinds) |-> layer.kinds[i].id],
              !.overlay_mask_size_px = layer.overlay_mask_size_px,
              !.overlay_brush_radius_px = layer.overlay_brush_radius_px]
EvLayerFinished(idx, id, res, summary) ==
  [Ev0 EXCEPT !.type = "LayerFinished", !.index = idx, !.id = id, !.result = res,
              !.overlay = summary]
EvPositionEvaluated(idx, id, pos, results, mw) ==
  [Ev0 EXCEPT !.type = "PositionEvaluated", !.index = idx, !.id = id, !.position = pos,
              !.evaluations = [i \in 1..Len(results) |->
                                 [kind_id |-> results[i].kind.id, allowed |-> results[i].allowed,
                                  weight |-> results[i].weight]],
              !.max_weight = mw]
EvPlacementMade(idx, id, pl) ==
  [Ev0 EXCEPT !.type = "PlacementMade", !.index = idx, !.id = id, !.placement = pl]
EvOverlayGenerated(idx, id, summary) ==
  [Ev0 EXCEPT !.type = "OverlayGenerated", !.index = idx, !.id = id, !.overlay = summary]
EvWarning(context, message) ==
  [Ev0 EXCEPT !.type = "Warning", !.context = context, !.message = message]

\* format!("mask_{}", layer.id)
MaskName(id) == "mask_" \o id

\* -------------------------------------------------------------------- state
VARIABLES
  plan, seed, wanted,          \* the inputs of run_plan: plan, RNG seed, sink filter
  run, pc,                     \* which of the two executions is running, and where it is
  rng,                         \* the generator state
  cache, next_pid,             \* FieldProgramCache.entries; the next program allocation
  overlays,                    \* run_plan's accumulated overlay map
  events,                      \* what the sink has received
  li, ki, kind_info,           \* layer index; kind being compiled; compiled kinds
  positions, pi, placed,       \* candidates of the layer; next candidate; placements
  layer_textures,              \* the layer's texture view
  last_eval,                   \* results and pick of the candidate evaluated last
  layer_result, overlay_opt,   \* what run_layer_with_events_internal returned
  all_placed, total_eval, total_reject,
  returned,                    \* the RunResult run_plan returned
  prev_events, prev_returned,  \* events and result of the first execution
  calls,                       \* the cache calls made so far (cache API runs)
  treq, tpc, tprog, tret,      \* per thread: its request, position, compiled program, result
  rwlock,                      \* the RwLock around FieldProgramCache.entries
  compiles,                    \* the compiler runs made by the threads
  cspec, cresult,              \* a spec handed to the compiler and what compile returned
  rconfig, tried_new,               \* a RunConfig and what ScatterRunner::try_new made of it
  rt, runtime_cache, nsamples, \* a FieldRuntime; a layer's runtimes; the samples taken
  poisson,                     \* a PoissonDiskSampler at work
  ovl,                         \* an overlay mask built from positions
  picking                      \* a selection among kind evaluations

inputVars == <<plan, seed, wanted>>
layerVars == <<li, ki, kind_info, positions, pi, placed, layer_textures, last_eval,
               layer_result, overlay_opt>>
totalVars == <<all_placed, total_eval, total_reject, returned>>
prevVars == <<prev_events, prev_returned>>
vars == <<plan, seed, wanted, run, pc, rng, cache, next_pid, overlays, events,
          li, ki, kind_info, positions, pi, placed, layer_textures, last_eval,
          layer_result, overlay_opt, all_placed, total_eval, total_reject, returned,
          prev_events, prev_returned, calls, treq, tpc, tprog, tret, rwlock, compiles,
          cspec, cresult, rconfig, tried_new, rt, runtime_cache, nsamples,
          poisson, ovl, picking>>

threadVars == <<treq, tpc, tprog, tret, rwlock, compiles>>
compVars == <<cspec, cresult>>
cfgVars == <<rconfig, tried_new>>
rtVars == <<rt, runtime_cache, nsamples>>
extraVars == <<poisson, ovl, picking>>
auxVars == <<threadVars, compVars, cfgVars, rtVars, extraVars>>

\* RwLock::new: no reader, no writer, not poisoned.
NewRwLock == [readers |-> {}, writer |-> 0, poisoned |-> FALSE]

\* No thread is using the cache.
ThreadsIdle ==
  /\ treq = <<>>
  /\ tpc = <<>>
  /\ tprog = <<>>
  /\ tret = <<>>
  /\ rwlock = NewRwLock
  /\ compiles = <<>>
\* No spec has been handed to the compiler.
CompilerIdle ==
  /\ cspec = <<>>
  /\ cresult = <<>>

\* An f32 of a RunConfig: not-a-number, or v units of 1/Scale.
F32(v) == [nan |-> FALSE, v |-> v]
NaN == [nan |-> TRUE, v |-> 0]
\* x <= 0.0, which is false for NaN
LeZero(x) == ~x.nan /\ x.v <= 0
ConfigValues == {F32(-Scale), F32(0), F32(1), F32(Scale), NaN}

\* RunConfig::new(extent).with_chunk_extent(..).with_raster_cell_size(..)
MkRunConfig(dx, dy, chunk_extent, raster_cell_size) ==
  [domain_extent |-> <<dx, dy>>, domain_center |-> <<F32(0), F32(0)>>,
   chunk_extent |-> chunk_extent, raster_cell_size |-> raster_cell_size, grid_halo |-> 2]

ConfigOk == [ok |-> TRUE, err |-> <<>>]
InvalidConfig(msg) == [ok |-> FALSE, err |-> <<"InvalidConfig", msg>>]

\* RunConfig::default()
DefaultRunConfig ==
  [domain_extent |-> <<F32(0), F32(0)>>, domain_center |-> <<F32(0), F32(0)>>,
   chunk_extent |-> F32(100 * Scale), raster_cell_size |-> F32(Scale), grid_halo |-> 2]

NoRunner == [some |-> FALSE, config |-> <<>>]
SomeRunner(config) == [some |-> TRUE, config |-> config]
NotTried == [tried |-> FALSE, ok |-> FALSE, err |-> <<>>, runner |-> NoRunner]

\* No runner has been asked for.
ConfigIdle ==
  /\ rconfig = DefaultRunConfig
  /\ tried_new = NotTried

\* No runtime exists.
RuntimeIdle ==
  /\ rt = <<>>
  /\ runtime_cache = <<>>
  /\ nsamples = 0

\* No sampler, overlay or selection is under way.
ExtraIdle ==
  /\ poisson = <<>>
  /\ ovl = <<>>
  /\ picking = <<>>

AuxInit == ThreadsIdle /\ CompilerIdle /\ ConfigIdle /\ RuntimeIdle /\ ExtraIdle

\* EventSink::wants
wants(kind) == kind \in wanted

\* `if sink.wants(kind) { sink.send(event) }`
Send(evs, e) == IF wants(e.type) THEN Append(evs, e) ELSE evs
RECURSIVE SendAll(_, _)
SendAll(evs, es) == IF es = <<>> THEN evs ELSE SendAll(Send(evs, Head(es)), Tail(es))

NoEval == [position |-> <<0, 0>>, results |-> <<>>, picked |-> NoKind, valid |-> FALSE]

CurLayer == plan[li + 1]


\* ------------------------------------------------------------ plan executor
NoProb == [some |-> FALSE, id |-> ""]
SomeProb(id) == [some |-> TRUE, id |-> id]

\* The (kind, program, gates, probability) record pushed on kind_info; the
\* gate and probability lists follow the iteration order of program.nodes.
KindInfo(kind, program) ==
  LET gates == SelectSeq(program.iter, LAMBDA f : is_gate(program.nodes[f]))
      prob_ids == SelectSeq(program.iter, LAMBDA f : is_probability(program.nodes[f]))
  IN [kind |-> kind, program |-> program, gates |-> gates, prob_ids |-> prob_ids,
      prob |-> IF prob_ids = <<>> THEN NoProb ELSE SomeProb(prob_ids[1])]

\* The gate loop letting a gate that samples to exactly 0 pass.
EvalKind_ZeroGatePasses(info, textures, position) ==
  LET allowed == \A i \in 1..Len(info.gates) :
                    sample(info.program, textures, info.gates[i], position) >= 0
      weight == IF allowed
                THEN (IF info.prob.some
                      THEN ClampI(sample(info.program, textures, info.prob.id, position), 0, Scale)
                      ELSE DEFAULT_PROBABILITY_WHEN_MISSING)
                ELSE 0
  IN KindEvaluation(info.kind, allowed, weight)
\* The gate loop and the weight of one kind at one candidate.
EvalKind(info, textures, position) ==
  LET allowed == \A i \in 1..Len(info.gates) :
                    sample(info.program, textures, info.gates[i], position) > 0
      weight == IF allowed
                THEN (IF info.prob.some
                      THEN ClampI(sample(info.program, textures, info.prob.id, position), 0, Scale)
                      ELSE DEFAULT_PROBABILITY_WHEN_MISSING)
                ELSE 0
  IN KindEvaluation(info.kind, allowed, weight)

MaxWeight(results) ==
  LET allowed == SelectSeq(results, LAMBDA r : r.allowed)
  IN FoldMax(0, [i \in 1..Len(allowed) |-> allowed[i].weight])

\* The selection made for an accepted candidate.
Select(strategy, results, s) ==
  IF strategy = "WeightedRandom" THEN pick_weighted_random(results, s)
  ELSE [picked |-> pick_highest_probability(results), rng |-> s]

\* The events of one candidate, PlacementMade before its PositionEvaluated.
PositionEvents_PlacementFirst(idx, id, position, results, mw, picked) ==
  (IF picked.some THEN <<EvPlacementMade(idx, id, Placement(picked.id, position))>> ELSE <<>>)
    \o <<EvPositionEvaluated(idx, id, position, results, mw)>>
\* The events of one candidate: PositionEvaluated, then PlacementMade when
\* a kind was picked.
PositionEvents(idx, id, position, results, mw, picked) ==
  <<EvPositionEvaluated(idx, id, position, results, mw)>>
    \o (IF picked.some THEN <<EvPlacementMade(idx, id, Placement(picked.id, position))>> ELSE <<>>)

\* The layer's result counting every candidate as rejected.
LayerResult_AllRejected(candidates, placements) ==
  RunResult(placements, Len(candidates), Len(candidates))
\* eval_count, placed_count, rejected and the RunResult the layer returns.
LayerResult(candidates, placements) ==
  LET eval_count == Len(candidates)
      placed_count == Len(placements)
      rejected == Max2(0, eval_count - placed_count)
  IN RunResult(placements, eval_count, rejected)

\* The layer's placements put in front of the accumulated ones.
ExtendPlaced_InFront(all, layer_placements) == layer_placements \o all
\* all_placed.extend(layer_result.placements.iter().cloned())
ExtendPlaced(all, layer_placements) == all \o layer_placements

\* layer_textures: the base textures, then every accumulated overlay.
LayerTextures(base, ovs) ==
  [x \in (DOMAIN base) \cup (DOMAIN ovs) |-> IF x \in DOMAIN ovs THEN ovs[x] ELSE base[x]]

LayerLocalsReset ==
  /\ ki' = 1
  /\ kind_info' = <<>>
  /\ positions' = <<>>
  /\ pi' = 1
  /\ placed' = <<>>
  /\ layer_textures' = EmptyEntries
  /\ last_eval' = NoEval

\* run_plan_with_events up to the layer loop.
RunStart ==
  /\ pc = "run_start"
  /\ events' = SendAll(events,
                 <<EvRunStarted(Len(plan))>>
                   \o (IF plan = <<>>
                       THEN <<EvWarning(<<"plan">>, <<"Placement plan has no layers">>)>>
                       ELSE <<>>))
  /\ overlays' = EmptyEntries
  /\ all_placed' = <<>>
  /\ total_eval' = 0
  /\ total_reject' = 0
  /\ li' = 0
  /\ pc' = "layer_loop"
  /\ UNCHANGED <<inputVars, run, rng, cache, next_pid, ki, kind_info, positions, pi, placed,
                 layer_textures, last_eval, layer_result, overlay_opt, returned, prevVars, calls, auxVars>>

\* run_layer_with_events_internal on a layer without kinds.
LayerSkipNoKinds ==
  /\ pc = "layer_loop"
  /\ li < Len(plan)
  /\ CurLayer.kinds = <<>>
  /\ events' = Send(events, EvWarning(<<"layer", CurLayer.id>>, <<"Layer has no kinds; skipping">>))
  /\ layer_result' = EmptyResult
  /\ overlay_opt' = NoOverlay
  /\ pc' = "layer_return"
  /\ UNCHANGED <<inputVars, run, rng, cache, next_pid, overlays, li, ki, kind_info, positions,
                 pi, placed, layer_textures, last_eval, totalVars, prevVars, calls, auxVars>>

\* run_layer_with_events_internal: the LayerStarted event.
LayerStart ==
  /\ pc = "layer_loop"
  /\ li < Len(plan)
  /\ CurLayer.kinds # <<>>
  /\ events' = Send(events, EvLayerStarted(li, CurLayer))
  /\ kind_info' = <<>>
  /\ ki' = 1
  /\ pc' = "compile"
  /\ UNCHANGED <<inputVars, run, rng, cache, next_pid, overlays, li, positions, pi, placed,
                 layer_textures, last_eval, layer_result, overlay_opt, totalVars, prevVars, calls, auxVars>>

\* The loop over the kinds given up at the first kind that fails to compile.
CompileKind_FailureEndsLoop ==
  /\ pc = "compile"
  /\ ki <= Len(CurLayer.kinds)
  /\ LET k == CurLayer.kinds[ki]
         ctx == <<"layer", CurLayer.id, "kind", k.id>>
     IN \E po \in Perms(DOMAIN k.spec.nodes) :
          LET r == get_or_compile(cache, k, DefaultOpts, po, next_pid)
              info == KindInfo(k, r.program)
          IN /\ cache' = r.entries
             /\ next_pid' = IF r.compiled THEN next_pid + 1 ELSE next_pid
             /\ IF r.ok
                THEN /\ ki' = ki + 1
                     /\ kind_info' = Append(kind_info, info)
                     /\ events' =
                          IF Len(info.prob_ids) > 1
                          THEN Send(events, EvWarning(ctx,
                                 <<"Multiple Probability fields found; using first">> \o info.prob_ids))
                          ELSE events
                ELSE /\ ki' = Len(CurLayer.kinds) + 1
                     /\ kind_info' = kind_info
                     /\ events' = Send(events, EvWarning(ctx, <<"Failed to compile kind">> \o r.err))
  /\ UNCHANGED <<inputVars, run, pc, rng, overlays, li, positions, pi, placed, layer_textures,
                 last_eval, layer_result, overlay_opt, totalVars, prevVars, calls, auxVars>>
\* One pass of `for k in &layer.kinds`.
CompileKind ==
  /\ pc = "compile"
  /\ ki <= Len(CurLayer.kinds)
  /\ LET k == CurLayer.kinds[ki]
         ctx == <<"layer", CurLayer.id, "kind", k.id>>
     IN \E po \in Perms(DOMAIN k.spec.nodes) :
          LET r == get_or_compile(cache, k, DefaultOpts, po, next_pid)
              info == KindInfo(k, r.program)
          IN /\ cache' = r.entries
             /\ next_pid' = IF r.compiled THEN next_pid + 1 ELSE next_pid
             /\ IF r.ok
                THEN /\ kind_info' = Append(kind_info, info)
                     /\ events' =
                          IF Len(info.prob_ids) > 1
                          THEN Send(events, EvWarning(ctx,
                                 <<"Multiple Probability fields found; using first">> \o info.prob_ids))
                          ELSE events
                ELSE /\ kind_info' = kind_info
                     /\ events' = Send(events, EvWarning(ctx, <<"Failed to compile kind">> \o r.err))
  /\ ki' = ki + 1
  /\ UNCHANGED <<inputVars, run, pc, rng, overlays, li, positions, pi, placed, layer_textures,
                 last_eval, layer_result, overlay_opt, totalVars, prevVars, calls, auxVars>>

\* The candidates sampled before the test for no compiled kind.
LayerNoPrograms_SamplesFirst ==
  /\ pc = "compile"
  /\ ki > Len(CurLayer.kinds)
  /\ kind_info = <<>>
  /\ rng' = generate(CurLayer.count, Config.domain_extent, rng).rng
  /\ layer_result' = EmptyResult
  /\ overlay_opt' = NoOverlay
  /\ pc' = "layer_return"
  /\ UNCHANGED <<inputVars, run, cache, next_pid, overlays, events, li, ki, kind_info,
                 positions, pi, placed, layer_textures, last_eval, totalVars, prevVars, calls, auxVars>>
\* `if kind_info.is_empty() { return ... }`
LayerNoPrograms ==
  /\ pc = "compile"
  /\ ki > Len(CurLayer.kinds)
  /\ kind_info = <<>>
  /\ layer_result' = EmptyResult
  /\ overlay_opt' = NoOverlay
  /\ pc' = "layer_return"
  /\ UNCHANGED <<inputVars, run, rng, cache, next_pid, overlays, events, li, ki, kind_info,
                 positions, pi, placed, layer_textures, last_eval, totalVars, prevVars, calls, auxVars>>

\* layer.sampling.generate and the layer's texture view.
GenerateCandidates ==
  /\ pc = "compile"
  /\ ki > Len(CurLayer.kinds)
  /\ kind_info # <<>>
  /\ LET g == generate(CurLayer.count, Config.domain_extent, rng)
     IN /\ positions' = [i \in 1..Len(g.positions) |->
                           <<g.positions[i][1] + Config.domain_center[1],
                             g.positions[i][2] + Config.domain_center[2]>>]
        /\ rng' = g.rng
  /\ layer_textures' = LayerTextures(BaseTextures, overlays)
  /\ placed' = <<>>
  /\ pi' = 1
  /\ pc' = "eval"
  /\ UNCHANGED <<inputVars, run, cache, next_pid, overlays, events, li, ki, kind_info,
                 last_eval, layer_result, overlay_opt, totalVars, prevVars, calls, auxVars>>

\* A candidate accepted on its weight alone.
Accepts_WithoutDraw(max_weight, r) == max_weight > 0
\* `if max_weight > 0.0 && rand01 < max_weight`
Accepts(max_weight, r) == max_weight > 0 /\ r < max_weight

\* One pass of `for position in positions`.
EvaluatePosition ==
  /\ pc = "eval"
  /\ pi <= Len(positions)
  /\ LET position == positions[pi]
         results == [i \in 1..Len(kind_info) |-> EvalKind(kind_info[i], layer_textures, position)]
         max_weight == MaxWeight(results)
         d == rand01(rng)
         sel == Select(CurLayer.selection_strategy, results, d.rng)
     IN IF Accepts(max_weight, d.value)
        THEN /\ rng' = sel.rng
             /\ last_eval' = [position |-> position, results |-> results,
                              picked |-> sel.picked, valid |-> TRUE]
             /\ placed' = IF sel.picked.some
                          THEN Append(placed, Placement(sel.picked.id, position))
                          ELSE placed
             /\ events' = SendAll(events, PositionEvents(li, CurLayer.id, position, results,
                                                         max_weight, sel.picked))
        ELSE /\ rng' = d.rng
             /\ last_eval' = [position |-> position, results |-> results,
                              picked |-> NoKind, valid |-> TRUE]
             /\ placed' = placed
             /\ events' = SendAll(events, PositionEvents(li, CurLayer.id, position, results,
                                                         max_weight, NoKind))
  /\ pi' = pi + 1
  /\ UNCHANGED <<inputVars, run, pc, cache, next_pid, overlays, li, ki, kind_info, positions,
                 layer_textures, layer_result, overlay_opt, totalVars, prevVars, calls, auxVars>>

\* The counters and the overlay of the layer, after the last candidate.
FinishLayerBody ==
  /\ pc = "eval"
  /\ pi > Len(positions)
  /\ LET size == CurLayer.overlay_mask_size_px
         radius == CurLayer.overlay_brush_radius_px
         ctx == <<"layer", CurLayer.id>>
         mask == build_overlay_mask_from_positions_in_domain(
                   Config.domain_extent, Config.domain_center,
                   [i \in 1..Len(placed) |-> placed[i].position], size.w, size.h, radius.r)
     IN /\ layer_result' = LayerResult(positions, placed)
        /\ IF size.some /\ radius.some
           THEN IF size.w = 0 \/ size.h = 0
                THEN /\ events' = Send(events, EvWarning(ctx, <<"Overlay size is zero; skipping overlay">>))
                     /\ overlay_opt' = NoOverlay
                ELSE IF radius.r < 0
                THEN /\ events' = Send(events, EvWarning(ctx, <<"Overlay brush radius < 0; skipping overlay">>))
                     /\ overlay_opt' = NoOverlay
                ELSE /\ events' = Send(events, EvOverlayGenerated(li, CurLayer.id,
                                         OverlaySummary(MaskName(CurLayer.id), size.w, size.h)))
                     /\ overlay_opt' = SomeOverlay(MaskName(CurLayer.id),
                                                   [mask EXCEPT !.layer = li, !.run = run])
           ELSE /\ events' = events
                /\ overlay_opt' = NoOverlay
  /\ pc' = "layer_return"
  /\ UNCHANGED <<inputVars, run, rng, cache, next_pid, overlays, li, ki, kind_info, positions,
                 pi, placed, layer_textures, last_eval, totalVars, prevVars, calls, auxVars>>

\* The overlay entered in the accumulated map in the step that sends
\* LayerFinished.
LayerReturn_InsertsOverlay ==
  /\ pc = "layer_return"
  /\ total_eval' = total_eval + layer_result.positions_evaluated
  /\ total_reject' = total_reject + layer_result.positions_rejected
  /\ all_placed' = ExtendPlaced(all_placed, layer_result.placements)
  /\ overlays' = IF overlay_opt.some
                 THEN MapInsert(overlays, overlay_opt.name, overlay_opt.texture)
                 ELSE overlays
  /\ events' = Send(events, EvLayerFinished(li, CurLayer.id, layer_result,
                      IF overlay_opt.some
                      THEN OverlaySummary(overlay_opt.name, overlay_opt.texture.width,
                                          overlay_opt.texture.height)
                      ELSE NoSummary))
  /\ pc' = "overlay_insert"
  /\ UNCHANGED <<inputVars, run, rng, cache, next_pid, layerVars, returned,
                 prevVars, calls, auxVars>>
\* run_plan_with_events after the layer returned: the totals and the
\* LayerFinished event.
LayerReturn ==
  /\ pc = "layer_return"
  /\ total_eval' = total_eval + layer_result.positions_evaluated
  /\ total_reject' = total_reject + layer_result.positions_rejected
  /\ all_placed' = ExtendPlaced(all_placed, layer_result.placements)
  /\ events' = Send(events, EvLayerFinished(li, CurLayer.id, layer_result,
                      IF overlay_opt.some
                      THEN OverlaySummary(overlay_opt.name, overlay_opt.texture.width,
                                          overlay_opt.texture.height)
                      ELSE NoSummary))
  /\ pc' = "overlay_insert"
  /\ UNCHANGED <<inputVars, run, rng, cache, next_pid, overlays, layerVars, returned,
                 prevVars, calls, auxVars>>

\* `if let Some((name, ov)) = overlay_opt { overlays.insert(name, ov) }` and
\* the step to the next layer.
InsertOverlay ==
  /\ pc = "overlay_insert"
  /\ overlays' = IF overlay_opt.some
                 THEN MapInsert(overlays, overlay_opt.name, overlay_opt.texture)
                 ELSE overlays
  /\ li' = li + 1
  /\ LayerLocalsReset
  /\ layer_result' = EmptyResult
  /\ overlay_opt' = NoOverlay
  /\ pc' = "layer_loop"
  /\ UNCHANGED <<inputVars, run, rng, cache, next_pid, events, totalVars, prevVars, calls, auxVars>>

\* The layer loop left one index too late.
RunFinish_OffByOne ==
  /\ pc = "layer_loop"
  /\ li > Len(plan)
  /\ LET result == RunResult(all_placed, total_eval, total_reject)
     IN /\ events' = Send(events, EvRunFinished(result))
        /\ returned' = result
  /\ pc' = "returned"
  /\ UNCHANGED <<inputVars, run, rng, cache, next_pid, overlays, layerVars, all_placed,
                 total_eval, total_reject, prevVars, calls, auxVars>>
\* The aggregated result, the RunFinished event and the return.
RunFinish ==
  /\ pc = "layer_loop"
  /\ li >= Len(plan)
  /\ LET result == RunResult(all_placed, total_eval, total_reject)
     IN /\ events' = Send(events, EvRunFinished(result))
        /\ returned' = result
  /\ pc' = "returned"
  /\ UNCHANGED <<inputVars, run, rng, cache, next_pid, overlays, layerVars, all_placed,
                 total_eval, total_reject, prevVars, calls, auxVars>>

\* The caller runs the same plan again: same config and textures, the
\* generator seeded as before, a new cache, a new sink with the same filter.
SecondRun ==
  /\ pc = "returned"
  /\ run = 1
  /\ prev_events' = events
  /\ prev_returned' = returned
  /\ run' = 2
  /\ rng' = seed
  /\ cache' = EmptyEntries
  /\ next_pid' = 1
  /\ events' = <<>>
  /\ returned' = EmptyResult
  /\ pc' = "run_start"
  /\ UNCHANGED <<inputVars, overlays, layerVars, all_placed, total_eval, total_reject, calls, auxVars>>

Init ==
  /\ plan \in Plans
  /\ seed \in Seeds
  /\ wanted \in SinkFilters
  /\ run = 1
  /\ pc = "run_start"
  /\ rng = seed
  /\ cache = EmptyEntries
  /\ next_pid = 1
  /\ overlays = EmptyEntries
  /\ events = <<>>
  /\ li = 0
  /\ ki = 1
  /\ kind_info = <<>>
  /\ positions = <<>>
  /\ pi = 1
  /\ placed = <<>>
  /\ layer_textures = EmptyEntries
  /\ last_eval = NoEval
  /\ layer_result = EmptyResult
  /\ overlay_opt = NoOverlay
  /\ all_placed = <<>>
  /\ total_eval = 0
  /\ total_reject = 0
  /\ returned = EmptyResult
  /\ prev_events = <<>>
  /\ prev_returned = EmptyResult
  /\ calls = <<>>
  /\ AuxInit

Next ==
  \/ RunStart
  \/ LayerSkipNoKinds
  \/ LayerStart
  \/ CompileKind
  \/ LayerNoPrograms
  \/ GenerateCandidates
  \/ EvaluatePosition
  \/ FinishLayerBody
  \/ LayerReturn
  \/ InsertOverlay
  \/ RunFinish
  \/ SecondRun

Spec == Init /\ [][Next]_vars

\* One execution observed by a verbose sink.  run_plan is a sequential
\* loop on the caller's thread: whenever it has a next statement it
\* executes it.
RunInit == Init /\ wanted = EventKinds /\ seed = 7
RunNext ==
  \/ RunStart
  \/ LayerSkipNoKinds
  \/ LayerStart
  \/ CompileKind
  \/ LayerNoPrograms
  \/ GenerateCandidates
  \/ EvaluatePosition
  \/ FinishLayerBody
  \/ LayerReturn
  \/ InsertOverlay
  \/ RunFinish
RunSpec == RunInit /\ [][RunNext]_vars /\ WF_vars(RunNext)

\* The caller runs the same plan again with another sink: same config,
\* textures and seed, a new cache, and a sink of any filter (`None` and
\* the sink `()` want nothing).
RunAgainWithSink ==
  /\ pc = "returned"
  /\ run = 1
  /\ prev_events' = events
  /\ prev_returned' = returned
  /\ run' = 2
  /\ wanted' \in SinkFilters
  /\ rng' = seed
  /\ cache' = EmptyEntries
  /\ next_pid' = 1
  /\ events' = <<>>
  /\ returned' = EmptyResult
  /\ pc' = "run_start"
  /\ UNCHANGED <<plan, seed, overlays, layerVars, all_placed, total_eval, total_reject, calls, auxVars>>

\* A first execution observed by a verbose sink, then one with any sink.
SinkInit == Init /\ wanted = EventKinds
SinkNext ==
  \/ RunStart
  \/ LayerSkipNoKinds
  \/ LayerStart
  \/ CompileKind
  \/ LayerNoPrograms
  \/ GenerateCandidates
  \/ EvaluatePosition
  \/ FinishLayerBody
  \/ LayerReturn
  \/ InsertOverlay
  \/ RunFinish
  \/ RunAgainWithSink
SpecSinks == SinkInit /\ [][SinkNext]_vars

\* ------------------------------------------------- the cache used directly
\* A caller holding a FieldProgramCache makes up to MaxCalls calls of
\* get_or_compile, remove and clear, one after the other.
CacheSpecBase == MkSpec("k" :> NConstant(Scale), NoSem)
CacheSpecParam == MkSpec("k" :> NConstant(Scale \div 2), NoSem)
CacheSpecSemantics == MkSpec("k" :> NConstant(Scale), "k" :> "Probability")
CacheSpecOneInput == MkSpec(("k" :> NConstant(Scale)) @@ ("m" :> NAdd(<<"k">>)), NoSem)
CacheSpecTwoInputs == MkSpec(("k" :> NConstant(Scale)) @@ ("m" :> NAdd(<<"k", "k">>)), NoSem)
CacheSpecIndependent == MkSpec(("x" :> NConstant(Scale)) @@ ("y" :> NConstant(0)), NoSem)

CacheKinds ==
  {MkKind("tree", sp) : sp \in {CacheSpecBase, CacheSpecParam, CacheSpecSemantics,
                                 CacheSpecOneInput, CacheSpecTwoInputs}}
    \cup {MkKind("rock", CacheSpecIndependent), MkKind("tree", SpecBad)}
CacheOpts == {DefaultOpts, MkOpts({"k"})}

CacheCall(op, kind, opts, ok, program, before, after) ==
  [op |-> op, kind |-> kind, opts |-> opts, ok |-> ok, program |-> program,
   before |-> before, after |-> after]

CacheInit ==
  /\ plan = <<>>
  /\ seed = 7
  /\ wanted = {}
  /\ run = 1
  /\ pc = "cache"
  /\ rng = seed
  /\ cache = EmptyEntries
  /\ next_pid = 1
  /\ overlays = EmptyEntries
  /\ events = <<>>
  /\ li = 0
  /\ ki = 1
  /\ kind_info = <<>>
  /\ positions = <<>>
  /\ pi = 1
  /\ placed = <<>>
  /\ layer_textures = EmptyEntries
  /\ last_eval = NoEval
  /\ layer_result = EmptyResult
  /\ overlay_opt = NoOverlay
  /\ all_placed = <<>>
  /\ total_eval = 0
  /\ total_reject = 0
  /\ returned = EmptyResult
  /\ prev_events = <<>>
  /\ prev_returned = EmptyResult
  /\ calls = <<>>
  /\ AuxInit

runVars == <<inputVars, run, pc, rng, overlays, events, layerVars, totalVars, prevVars>>

\* get_or_compile dropping the entry of the kind id when the compiler fails.
CacheGetOrCompile_FailureEvicts ==
  /\ pc = "cache"
  /\ Len(calls) < MaxCalls
  /\ \E kind \in CacheKinds, opts \in CacheOpts :
       \E po \in Perms(DOMAIN kind.spec.nodes) :
         LET r == get_or_compile(cache, kind, opts, po, next_pid)
             after == IF r.ok THEN r.entries ELSE MapRemove(cache, kind.id)
         IN /\ cache' = after
            /\ next_pid' = IF r.compiled THEN next_pid + 1 ELSE next_pid
            /\ calls' = Append(calls, CacheCall("get_or_compile", kind, opts, r.ok, r.program,
                                                cache, after))
  /\ UNCHANGED <<runVars, auxVars>>
\* cache.get_or_compile(&kind, &opts)
CacheGetOrCompile ==
  /\ pc = "cache"
  /\ Len(calls) < MaxCalls
  /\ \E kind \in CacheKinds, opts \in CacheOpts :
       \E po \in Perms(DOMAIN kind.spec.nodes) :
         LET r == get_or_compile(cache, kind, opts, po, next_pid)
         IN /\ cache' = r.entries
            /\ next_pid' = IF r.compiled THEN next_pid + 1 ELSE next_pid
            /\ calls' = Append(calls, CacheCall("get_or_compile", kind, opts, r.ok, r.program,
                                                cache, r.entries))
  /\ UNCHANGED <<runVars, auxVars>>

\* cache.remove(&kind_id)
CacheRemove ==
  /\ pc = "cache"
  /\ Len(calls) < MaxCalls
  /\ \E kind \in CacheKinds :
       /\ cache' = MapRemove(cache, kind.id)
       /\ calls' = Append(calls, CacheCall("remove", kind, DefaultOpts, kind.id \in DOMAIN cache,
                                           get_for_kind(cache, kind.id).program,
                                           cache, MapRemove(cache, kind.id)))
  /\ UNCHANGED <<runVars, next_pid, auxVars>>

\* cache.clear()
CacheClear ==
  /\ pc = "cache"
  /\ Len(calls) < MaxCalls
  /\ cache' = EmptyEntries
  /\ calls' = Append(calls, CacheCall("clear", MkKind("", CacheSpecBase), DefaultOpts, TRUE,
                                      NoProgram, cache, EmptyEntries))
  /\ UNCHANGED <<runVars, next_pid, auxVars>>

CacheNext ==
  \/ CacheGetOrCompile
  \/ CacheRemove
  \/ CacheClear

SpecCache == CacheInit /\ [][CacheNext]_vars

\* ------------------------------------------- the cache shared by threads
\* NumThreads threads share one FieldProgramCache; each makes one call of
\* get_or_compile, and the steps of the calls interleave at the lock
\* operations.
Threads == 1..NumThreads
ThreadRequests ==
  {[kind |-> MkKind("rock", CacheSpecIndependent), opts |-> DefaultOpts],
   [kind |-> MkKind("tree", CacheSpecBase), opts |-> DefaultOpts],
   [kind |-> MkKind("tree", CacheSpecParam), opts |-> DefaultOpts]}

\* What a call has come to: nothing yet, Ok(program), Err(Compile(..)), or a
\* panic that unwinds the caller.  poisoned tells whether the call found
\* the lock poisoned.
NoOutcome == [kind |-> "none", err |-> <<>>, program |-> NoProgram, poisoned |-> FALSE]
OkOutcome(program) == [NoOutcome EXCEPT !.kind = "ok", !.program = program]
ErrOutcome(err) == [NoOutcome EXCEPT !.kind = "err", !.err = err]
\* .expect("FieldProgramCache lock poisoned") on a poisoned lock
PoisonedOutcome ==
  [NoOutcome EXCEPT !.kind = "panic", !.err = <<"FieldProgramCache lock poisoned">>,
                    !.poisoned = TRUE]
\* A panic of the thread's own, inside the write-locked section.
PanicOutcome == [NoOutcome EXCEPT !.kind = "panic", !.err = <<"panic while holding the lock">>]

\* What no step of a thread touches.
threadFrame == <<runVars, calls, compVars, cfgVars, rtVars, extraVars>>

ThreadFp(t) == fingerprint(treq[t].kind.spec, treq[t].opts)
ThreadKey(t) == treq[t].kind.id

\* The variables of run_plan and of the single-threaded cache log, unused.
RunIdle ==
  /\ plan = <<>>
  /\ seed = 7
  /\ wanted = {}
  /\ run = 1
  /\ rng = seed
  /\ cache = EmptyEntries
  /\ next_pid = 1
  /\ overlays = EmptyEntries
  /\ events = <<>>
  /\ li = 0
  /\ ki = 1
  /\ kind_info = <<>>
  /\ positions = <<>>
  /\ pi = 1
  /\ placed = <<>>
  /\ layer_textures = EmptyEntries
  /\ last_eval = NoEval
  /\ layer_result = EmptyResult
  /\ overlay_opt = NoOverlay
  /\ all_placed = <<>>
  /\ total_eval = 0
  /\ total_reject = 0
  /\ returned = EmptyResult
  /\ prev_events = <<>>
  /\ prev_returned = EmptyResult
  /\ calls = <<>>

ThreadsInit ==
  /\ pc = "threads"
  /\ RunIdle
  /\ CompilerIdle
  /\ ConfigIdle
  /\ RuntimeIdle
  /\ ExtraIdle
  /\ treq \in [Threads -> ThreadRequests]
  /\ tpc = [t \in Threads |-> "start"]
  /\ tprog = [t \in Threads |-> NoProgram]
  /\ tret = [t \in Threads |-> NoOutcome]
  /\ rwlock = NewRwLock
  /\ compiles = <<>>

\* self.entries.read().expect(..): waits while a writer holds the lock;
\* panics when the lock is poisoned.
ReadAcquire(t) ==
  /\ pc = "threads"
  /\ tpc[t] = "start"
  /\ rwlock.writer = 0
  /\ IF rwlock.poisoned
     THEN /\ tpc' = [tpc EXCEPT ![t] = "panicked"]
          /\ tret' = [tret EXCEPT ![t] = PoisonedOutcome]
          /\ rwlock' = rwlock
     ELSE /\ tpc' = [tpc EXCEPT ![t] = "read_locked"]
          /\ tret' = tret
          /\ rwlock' = [rwlock EXCEPT !.readers = @ \cup {t}]
  /\ UNCHANGED <<threadFrame, cache, next_pid, treq, tprog, compiles>>

\* The lookup under the read lock and the end of its block.
ReadCheck(t) ==
  /\ pc = "threads"
  /\ tpc[t] = "read_locked"
  /\ IF CacheMatches(cache, ThreadKey(t), ThreadFp(t))
     THEN /\ tret' = [tret EXCEPT ![t] = OkOutcome(cache[ThreadKey(t)].program)]
          /\ tpc' = [tpc EXCEPT ![t] = "done"]
     ELSE /\ tret' = tret
          /\ tpc' = [tpc EXCEPT ![t] = "compile"]
  /\ rwlock' = [rwlock EXCEPT !.readers = @ \ {t}]
  /\ UNCHANGED <<threadFrame, cache, next_pid, treq, tprog, compiles>>

\* Arc::new(FieldGraphCompiler::compile(&kind.spec, opts)?), with no lock held.
ThreadCompile(t) ==
  /\ pc = "threads"
  /\ tpc[t] = "compile"
  /\ \E po \in Perms(DOMAIN treq[t].kind.spec.nodes) :
       LET c == compile(treq[t].kind.spec, treq[t].opts, po, next_pid)
       IN IF c.ok
          THEN /\ tprog' = [tprog EXCEPT ![t] = c.program]
               /\ tret' = tret
               /\ tpc' = [tpc EXCEPT ![t] = "want_write"]
          ELSE /\ tprog' = tprog
               /\ tret' = [tret EXCEPT ![t] = ErrOutcome(c.err)]
               /\ tpc' = [tpc EXCEPT ![t] = "done"]
  /\ next_pid' = next_pid + 1
  /\ compiles' = Append(compiles, [thread |-> t, key |-> ThreadKey(t), fp |-> ThreadFp(t),
                                    exclusive |-> rwlock.writer = t])
  /\ UNCHANGED <<threadFrame, cache, treq, rwlock>>

\* self.entries.write().expect(..): waits for the readers and the writer to
\* leave; panics when the lock is poisoned.
WriteAcquire(t) ==
  /\ pc = "threads"
  /\ tpc[t] = "want_write"
  /\ rwlock.writer = 0
  /\ rwlock.readers = {}
  /\ IF rwlock.poisoned
     THEN /\ tpc' = [tpc EXCEPT ![t] = "panicked"]
          /\ tret' = [tret EXCEPT ![t] = PoisonedOutcome]
          /\ rwlock' = rwlock
     ELSE /\ tpc' = [tpc EXCEPT ![t] = "write_locked"]
          /\ tret' = tret
          /\ rwlock' = [rwlock EXCEPT !.writer = t]
  /\ UNCHANGED <<threadFrame, cache, next_pid, treq, tprog, compiles>>

\* The write-locked section inserting without looking at the entry.
WriteCheckInsert_NoRecheck(t) ==
  /\ pc = "threads"
  /\ tpc[t] = "write_locked"
  /\ cache' = MapInsert(cache, ThreadKey(t), ProgramEntry(tprog[t], ThreadFp(t)))
  /\ tret' = [tret EXCEPT ![t] = OkOutcome(tprog[t])]
  /\ rwlock' = [rwlock EXCEPT !.writer = 0]
  /\ tpc' = [tpc EXCEPT ![t] = "done"]
  /\ UNCHANGED <<threadFrame, next_pid, treq, tprog, compiles>>
\* The write-locked section: the entry is looked up again, and inserted
\* when absent or of another fingerprint; the guard is dropped at the return.
WriteCheckInsert(t) ==
  /\ pc = "threads"
  /\ tpc[t] = "write_locked"
  /\ IF CacheMatches(cache, ThreadKey(t), ThreadFp(t))
     THEN /\ cache' = cache
          /\ tret' = [tret EXCEPT ![t] = OkOutcome(cache[ThreadKey(t)].program)]
     ELSE /\ cache' = MapInsert(cache, ThreadKey(t), ProgramEntry(tprog[t], ThreadFp(t)))
          /\ tret' = [tret EXCEPT ![t] = OkOutcome(tprog[t])]
  /\ rwlock' = [rwlock EXCEPT !.writer = 0]
  /\ tpc' = [tpc EXCEPT ![t] = "done"]
  /\ UNCHANGED <<threadFrame, next_pid, treq, tprog, compiles>>

\* A panic while the write guard is held (entries.insert allocates): the
\* guard is dropped during unwinding and marks the lock poisoned.
WritePanics(t) ==
  /\ pc = "threads"
  /\ tpc[t] = "write_locked"
  /\ rwlock' = [rwlock EXCEPT !.writer = 0, !.poisoned = TRUE]
  /\ tret' = [tret EXCEPT ![t] = PanicOutcome]
  /\ tpc' = [tpc EXCEPT ![t] = "panicked"]
  /\ UNCHANGED <<threadFrame, cache, next_pid, treq, tprog, compiles>>

ThreadsNext ==
  \/ \E t \in Threads : ReadAcquire(t)
  \/ \E t \in Threads : ReadCheck(t)
  \/ \E t \in Threads : ThreadCompile(t)
  \/ \E t \in Threads : WriteAcquire(t)
  \/ \E t \in Threads : WriteCheckInsert(t)
  \/ \E t \in Threads : WritePanics(t)

SpecThreads == ThreadsInit /\ [][ThreadsNext]_vars

\* ------------------------------------------------- the compiler on its own
\* FieldGraphCompiler::compile applied to one spec of a bounded family:
\* nodes x and y of any shape, an optional constant k, inputs drawn from the
\* ids and from an id no spec defines.
InputIds == {"x", "y", "k", "missing"}
InputSeqs == UNION {[1..n -> InputIds] : n \in 0..MaxInputs}
CompileNodes ==
  {NConstant(Scale)} \cup {NAdd(ins) : ins \in InputSeqs} \cup {NInvert(ins) : ins \in InputSeqs}
    \cup {NMul(ins) : ins \in InputSeqs} \cup {NClamp(ins, 0, Scale) : ins \in InputSeqs}
\* The spec with the nodes f of shape CompileNodes and, for K = {"k"}, the constant k.
CompileSpecOf(f, K) ==
  MkSpec([id \in DOMAIN f \cup K |-> IF id = "k" THEN NConstant(0) ELSE f[id]], NoSem)

NoCompileResult == [ok |-> FALSE, err |-> <<>>, program |-> NoProgram]

CompileInit ==
  /\ pc = "compiler"
  /\ RunIdle
  /\ ThreadsIdle
  /\ ConfigIdle
  /\ RuntimeIdle
  /\ ExtraIdle
  /\ \E K \in {{}, {"k"}} : \E D \in SUBSET {"x", "y"} : \E f \in [D -> CompileNodes] :
       cspec = CompileSpecOf(f, K)
  /\ cresult = NoCompileResult

\* FieldGraphCompiler::compile(&spec, &CompileOptions::default()), for any
\* iteration order of the node map the compiler builds.
CompileSpec ==
  /\ pc = "compiler"
  /\ \E po \in Perms(DOMAIN cspec.nodes) :
       cresult' = compile(cspec, DefaultOpts, po, 1)
  /\ pc' = "compiled"
  /\ UNCHANGED <<inputVars, run, rng, overlays, events, layerVars, totalVars, prevVars,
                 cache, next_pid, calls, threadVars, cspec, cfgVars, rtVars, extraVars>>

CompileNext == CompileSpec

SpecCompile == CompileInit /\ [][CompileNext]_vars

\* --------------------------------------------------- RunConfig and the runner
\* validate with the check of raster_cell_size left out.
validate_NoCellSizeCheck(config) ==
  IF LeZero(config.domain_extent[1]) \/ LeZero(config.domain_extent[2])
    THEN InvalidConfig("domain_extent must be > 0 in both components")
  ELSE IF LeZero(config.chunk_extent)
    THEN InvalidConfig("chunk_extent must be > 0")
  ELSE ConfigOk
\* RunConfig::validate
validate(config) ==
  IF LeZero(config.domain_extent[1]) \/ LeZero(config.domain_extent[2])
    THEN InvalidConfig("domain_extent must be > 0 in both components")
  ELSE IF LeZero(config.chunk_extent)
    THEN InvalidConfig("chunk_extent must be > 0")
  ELSE IF LeZero(config.raster_cell_size)
    THEN InvalidConfig("raster_cell_size must be > 0")
  ELSE ConfigOk

\* ScatterRunner::try_new: `config.validate()?` and then the runner.
try_new(config) ==
  LET v == validate(config)
  IN IF v.ok
     THEN [tried |-> TRUE, ok |-> TRUE, err |-> <<>>, runner |-> SomeRunner(config)]
     ELSE [tried |-> TRUE, ok |-> FALSE, err |-> v.err, runner |-> NoRunner]

ConfigInit ==
  /\ pc = "config"
  /\ RunIdle
  /\ ThreadsIdle
  /\ CompilerIdle
  /\ RuntimeIdle
  /\ ExtraIdle
  /\ \E dx \in ConfigValues : \E dy \in ConfigValues :
       \E ce \in ConfigValues : \E rc \in ConfigValues :
         rconfig = MkRunConfig(dx, dy, ce, rc)
  /\ tried_new = NotTried

\* let runner = ScatterRunner::try_new(config, &textures, &cache)
TryNew ==
  /\ pc = "config"
  /\ tried_new' = try_new(rconfig)
  /\ pc' = IF tried_new'.ok THEN "constructed" ELSE "rejected"
  /\ UNCHANGED <<inputVars, run, rng, overlays, events, layerVars, totalVars, prevVars,
                 cache, next_pid, calls, threadVars, compVars, rconfig, rtVars, extraVars>>

\* runner.run_with_events(&plan, &mut rng, &mut sink) on a plan without
\* layers: only a runner that was made can be asked to run.
RunnerRunWithEvents ==
  /\ pc = "constructed"
  /\ tried_new.runner.some
  /\ wanted' \in SinkFilters
  /\ pc' = "run_start"
  /\ UNCHANGED <<plan, seed, run, rng, overlays, events, layerVars, totalVars, prevVars,
                 cache, next_pid, calls, auxVars>>

ConfigNext ==
  \/ TryNew
  \/ RunnerRunWithEvents
  \/ RunStart
  \/ RunFinish

SpecConfig == ConfigInit /\ [][ConfigNext]_vars

\* ------------------------------------------------- FieldRuntime and baking
\* What sampling does to a FieldRuntime: which rasters it holds and how
\* often each was baked.  A runtime is its program, the keys of
\* baked_rasters, and two counts kept for the properties: bakes, how often
\* a raster was computed for a key, and samples, how often the caller
\* sampled a key.  The sampled values are left out.
\* ChunkId: two neighbouring chunks of the domain.
Chunks == {<<0, 0>>, <<1, 0>>}

\* FieldRuntime::new
FieldRuntimeNew(program) ==
  [program |-> program, baked |-> {}, bakes |-> <<>>, samples |-> <<>>]

\* One more in the count of key.
CountUp(counts, key) ==
  IF key \in DOMAIN counts THEN [counts EXCEPT ![key] = @ + 1] ELSE counts @@ (key :> 1)
CountOf(counts, key) == IF key \in DOMAIN counts THEN counts[key] ELSE 0

\* The raster computed and then dropped instead of kept under its key.
BakeInsert_NotKept(r, key) ==
  [r EXCEPT !.bakes = CountUp(@, key)]
\* self.baked_rasters.insert(key, raster), the raster just computed
BakeInsert(r, key) ==
  [r EXCEPT !.baked = @ \cup {key}, !.bakes = CountUp(@, key)]

FirstInput(node) == IF node.inputs = <<>> THEN "" ELSE node.inputs[1]

RECURSIVE runtime_sample(_, _, _)
RECURSIVE runtime_eval_field_value(_, _, _)
RECURSIVE bake_raster_if_needed(_, _, _)
RECURSIVE SampleEach(_, _, _)
RECURSIVE ForEachCell(_, _, _, _, _)

\* `for id in inputs { .. self.sample(&id, p, chunk, grid) }`
SampleEach(r, ids, chunk) ==
  IF ids = <<>> THEN r ELSE SampleEach(runtime_sample(r, Head(ids), chunk), Tail(ids), chunk)

\* The loop over the n cells of the raster, sampling (bake_edt_normalize_params)
\* or evaluating (bake_raster_if_needed) the field at each.
ForEachCell(r, field, chunk, n, sampling) ==
  IF n = 0 THEN r
  ELSE ForEachCell(IF sampling THEN runtime_sample(r, field, chunk)
                   ELSE runtime_eval_field_value(r, field, chunk),
                   field, chunk, n - 1, sampling)

\* FieldRuntime::sample
runtime_sample(r, field, chunk) ==
  IF <<field, chunk>> \in r.baked THEN r
  ELSE IF field \in DOMAIN r.program.nodes /\ r.program.nodes[field].force_bake
    THEN LET r1 == bake_raster_if_needed(r, field, chunk)
         IN IF <<field, chunk>> \in r1.baked THEN r1
            ELSE runtime_eval_field_value(r1, field, chunk)
  ELSE runtime_eval_field_value(r, field, chunk)

\* FieldRuntime::eval_field_value
runtime_eval_field_value(r, field, chunk) ==
  IF field \notin DOMAIN r.program.nodes THEN r
  ELSE LET node == r.program.nodes[field].spec
       IN CASE node.op \in {"Constant", "Texture"} -> r
            [] node.op \in VariadicOps -> SampleEach(r, node.inputs, chunk)
            [] node.op = "Scale" ->
                 IF node.inputs = <<>> THEN r ELSE runtime_sample(r, node.inputs[1], chunk)
            [] node.op = "EdtNormalize" -> bake_raster_if_needed(r, field, chunk)
            [] OTHER -> runtime_sample(r, FirstInput(node), chunk)

\* FieldRuntime::bake_raster_if_needed
bake_raster_if_needed(r, field, chunk) ==
  IF <<field, chunk>> \in r.baked THEN r
  ELSE IF field \notin DOMAIN r.program.nodes THEN r
  ELSE LET node == r.program.nodes[field].spec
       IN IF node.op = "EdtNormalize"
          THEN BakeInsert(ForEachCell(r, FirstInput(node), chunk, RasterCells, TRUE),
                          <<field, chunk>>)
          ELSE BakeInsert(ForEachCell(r, field, chunk, RasterCells, FALSE), <<field, chunk>>)

\* A sample asked for by the user of the runtime.
CallerSample(r, field, chunk) ==
  LET r1 == runtime_sample(r, field, chunk)
  IN [r1 EXCEPT !.samples = CountUp(@, <<field, chunk>>)]

\* The specs the runtimes run: an EDT of a texture used as a gate, and a
\* chain of arithmetic nodes.
SpecEdt ==
  MkSpec(("x" :> NTexture("half", "R")) @@ ("g" :> NEdtNormalize(<<"x">>, Scale \div 2, Scale))
           @@ ("p" :> NInvert(<<"g">>)),
         ("g" :> "Gate") @@ ("p" :> "Probability"))
SpecChain ==
  MkSpec(("x" :> NConstant(Scale \div 2)) @@ ("m" :> NAdd(<<"x", "x">>))
           @@ ("p" :> NMul(<<"m", "m">>)),
         ("m" :> "Gate") @@ ("p" :> "Probability"))
RuntimeSpecs == {SpecEdt, SpecChain}
KEdt == MkKind("edt", SpecEdt)
KChain == MkKind("chain", SpecChain)

\* kind_info of a layer with the kinds edt and chain: the runner compiles
\* with CompileOptions::default().
RuntimeKindInfo ==
  <<KindInfo(KEdt, compile(SpecEdt, DefaultOpts, SpecEdt.iter, 1).program),
    KindInfo(KChain, compile(SpecChain, DefaultOpts, SpecChain.iter, 2).program)>>

NoRuntimes == [k \in {} |-> FieldRuntimeNew(NoProgram)]

\* The gate loop and the weight of one kind at one candidate, on the
\* kind's runtime: gate number cut is the one that samples <= 0 and ends
\* the loop; with cut = 0 every gate passes and the probability field is
\* sampled.
RECURSIVE SampleGates(_, _, _, _)
SampleGates(r, gates, chunk, cut) ==
  IF gates = <<>> \/ cut = 0 THEN r
  ELSE SampleGates(CallerSample(r, Head(gates), chunk), Tail(gates), chunk, cut - 1)
EvaluateOnRuntime(r, info, chunk, cut) ==
  LET r1 == SampleGates(r, info.gates, chunk, IF cut = 0 THEN Len(info.gates) ELSE cut)
  IN IF cut = 0 /\ info.prob.some THEN CallerSample(r1, info.prob.id, chunk) ELSE r1

\* `for (kind, program, ..) in &kind_info`: the runtime of (kind id, chunk)
\* is made on first use and used from then on.
RECURSIVE EvaluateKinds(_, _, _, _)
EvaluateKinds(runtimes, infos, chunk, cuts) ==
  IF infos = <<>> THEN runtimes
  ELSE LET info == Head(infos)
           key == <<info.kind.id, chunk>>
           with == IF key \in DOMAIN runtimes THEN runtimes
                   ELSE runtimes @@ (key :> FieldRuntimeNew(info.program))
           after == [with EXCEPT ![key] = EvaluateOnRuntime(@, info, chunk, Head(cuts))]
       IN EvaluateKinds(after, Tail(infos), chunk, Tail(cuts))

RuntimeInit ==
  /\ pc = "runtime"
  /\ RunIdle
  /\ ThreadsIdle
  /\ CompilerIdle
  /\ ConfigIdle
  /\ ExtraIdle
  /\ \E spec \in RuntimeSpecs : \E bake \in SUBSET DOMAIN spec.nodes :
       rt = FieldRuntimeNew(compile(spec, MkOpts(bake), spec.iter, 1).program)
  /\ runtime_cache = NoRuntimes
  /\ nsamples = 0

\* rt.sample(field, p, chunk, &grid) by the owner of a runtime.
RuntimeSample ==
  /\ pc = "runtime"
  /\ nsamples < MaxSamples
  /\ \E field \in DOMAIN rt.program.nodes \cup {"missing"} : \E chunk \in Chunks :
       rt' = CallerSample(rt, field, chunk)
  /\ nsamples' = nsamples + 1
  /\ UNCHANGED <<runVars, cache, next_pid, calls, threadVars, compVars, cfgVars, runtime_cache, extraVars>>

\* One pass of `for position in positions` of a layer with the kinds edt
\* and chain; chunk is the chunk the candidate lies in.
LayerCandidate ==
  /\ pc = "runtime"
  /\ nsamples < MaxSamples
  /\ \E chunk \in Chunks : \E cuts \in [1..Len(RuntimeKindInfo) -> 0..1] :
       runtime_cache' = EvaluateKinds(runtime_cache, RuntimeKindInfo, chunk, cuts)
  /\ nsamples' = nsamples + 1
  /\ UNCHANGED <<runVars, cache, next_pid, calls, threadVars, compVars, cfgVars, rt, extraVars>>

RuntimeNext ==
  \/ RuntimeSample
  \/ LayerCandidate

SpecRuntime == RuntimeInit /\ [][RuntimeNext]_vars

\* ----------------------------------------------------- Poisson disk sampling
\* Positions and lengths are integers with Scale units per 1.0; the cell
\* size radius / sqrt(2) is kept exact by comparing squares.
MAX_ATTEMPTS == 30
TriesPerPass == 5

\* PoissonDiskSampling.radius: a finite f32, or a non-finite one (NaN, +-inf).
Radius(v) == [finite |-> TRUE, v |-> v]
NonFiniteRadius == [finite |-> FALSE, v |-> 0]

\* (c / cell_size).floor() for c >= 0: the largest k with k * r <= c * sqrt(2).
FloorCells(c, r) ==
  CHOOSE k \in 0..((2 * c) \div r + 1) :
    k * k * r * r <= 2 * c * c /\ (k + 1) * (k + 1) * r * r > 2 * c * c
\* (c / cell_size).ceil() as usize: 0 for c <= 0, else the least k with
\* k * r >= c * sqrt(2).
CeilCells(c, r) ==
  IF c <= 0 THEN 0
  ELSE CHOOSE k \in 1..((2 * c) \div r + 2) :
         k * k * r * r >= 2 * c * c /\ (k - 1) * (k - 1) * r * r < 2 * c * c

NoPoint == [some |-> FALSE, p |-> <<0, 0>>]
SomePoint(p) == [some |-> TRUE, p |-> p]

\* PoissonDiskSampler::new
PoissonDiskSampler_new(radius, bounds) ==
  LET grid_width == CeilCells(bounds[1], radius) + 1
      grid_height == CeilCells(bounds[2], radius) + 1
  IN [radius |-> radius, grid_width |-> grid_width, grid_height |-> grid_height,
      grid |-> [i \in 0..(grid_width * grid_height - 1) |-> NoPoint],
      active_list |-> <<>>, bounds |-> bounds]

grid_index(sa, x, y) == y * sa.grid_width + x

\* One axis of point_to_grid: floor, then clamp(0, cells - 1).
AxisToGrid(v, bound, radius, cells) ==
  LET centered == v + bound \div 2
  IN IF centered < 0 THEN 0 ELSE ClampI(FloorCells(centered, radius), 0, cells - 1)
point_to_grid(sa, point) ==
  <<AxisToGrid(point[1], sa.bounds[1], sa.radius, sa.grid_width),
    AxisToGrid(point[2], sa.bounds[2], sa.radius, sa.grid_height)>>

\* is_valid_point searching the 3x3 cells around the candidate only.
is_valid_point_3x3(sa, point) ==
  LET half_x == sa.bounds[1] \div 2
      half_y == sa.bounds[2] \div 2
      g == point_to_grid(sa, point)
  IN IF point[1] < -half_x \/ point[1] >= half_x \/ point[2] < -half_y \/ point[2] >= half_y
     THEN FALSE
     ELSE \A y \in Max2(g[2] - 1, 0)..(Min2(g[2] + 2, sa.grid_height) - 1) :
            \A x \in Max2(g[1] - 1, 0)..(Min2(g[1] + 2, sa.grid_width) - 1) :
              LET e == sa.grid[grid_index(sa, x, y)]
              IN e.some =>
                   ~((point[1] - e.p[1]) * (point[1] - e.p[1])
                       + (point[2] - e.p[2]) * (point[2] - e.p[2]) < sa.radius * sa.radius)
\* is_valid_point: inside the half-open domain and no point of the 5x5
\* cells around it closer than radius.
is_valid_point(sa, point) ==
  LET half_x == sa.bounds[1] \div 2
      half_y == sa.bounds[2] \div 2
      g == point_to_grid(sa, point)
  IN IF point[1] < -half_x \/ point[1] >= half_x \/ point[2] < -half_y \/ point[2] >= half_y
     THEN FALSE
     ELSE \A y \in Max2(g[2] - 2, 0)..(Min2(g[2] + 3, sa.grid_height) - 1) :
            \A x \in Max2(g[1] - 2, 0)..(Min2(g[1] + 3, sa.grid_width) - 1) :
              LET e == sa.grid[grid_index(sa, x, y)]
              IN e.some =>
                   ~((point[1] - e.p[1]) * (point[1] - e.p[1])
                       + (point[2] - e.p[2]) * (point[2] - e.p[2]) < sa.radius * sa.radius)

\* add_point
add_point(sa, point) ==
  LET g == point_to_grid(sa, point)
  IN [sa EXCEPT !.grid[grid_index(sa, g[1], g[2])] = SomePoint(point),
                !.active_list = Append(@, point)]

\* angle.cos() and angle.sin() in thousandths, the angle rand01 * 2 * PI
\* taken down to a multiple of 45 degrees.
Cos8 == <<1000, 707, 0, -707, -1000, -707, 0, 707, 1000>>
Sin8 == <<0, 707, 1000, 707, 0, -707, -1000, -707, 0>>
\* c * d / 1000, rounded toward zero
Thousandths(c, d) == IF c >= 0 THEN (c * d) \div 1000 ELSE -((-c * d) \div 1000)

\* generate_around_point with `attempts` attempts left: the candidate
\* found, if any, and the generator state.
RECURSIVE generate_around_point(_, _, _, _)
generate_around_point(sa, s, point, attempts) ==
  IF attempts = 0 THEN [some |-> FALSE, p |-> <<0, 0>>, rng |-> s]
  ELSE LET a == rand01(s)
           d == rand01(a.rng)
           octant == (a.value * 8) \div Scale + 1
           distance == sa.radius + (d.value * sa.radius) \div Scale
           candidate == <<point[1] + Thousandths(Cos8[octant], distance),
                          point[2] + Thousandths(Sin8[octant], distance)>>
       IN IF is_valid_point(sa, candidate)
          THEN [some |-> TRUE, p |-> candidate, rng |-> d.rng]
          ELSE generate_around_point(sa, d.rng, point, attempts - 1)

\* The sampler's inputs.
PoissonRadii == {Radius(0), Radius(-Scale), NonFiniteRadius, Radius(2 * Scale), Radius(3 * Scale)}
PoissonExtents == {<<4 * Scale, 4 * Scale>>, <<6 * Scale, 2 * Scale>>, <<0, 4 * Scale>>,
                   <<4 * Scale, -2 * Scale>>}

NoSampler == PoissonDiskSampler_new(1, <<0, 0>>)

PoissonInit ==
  /\ pc = "poisson"
  /\ plan = <<>>
  /\ seed \in 0..(RngMod - 1)
  /\ rng = seed
  /\ wanted = {}
  /\ run = 1
  /\ cache = EmptyEntries
  /\ next_pid = 1
  /\ overlays = EmptyEntries
  /\ events = <<>>
  /\ li = 0
  /\ ki = 1
  /\ kind_info = <<>>
  /\ positions = <<>>
  /\ pi = 1
  /\ placed = <<>>
  /\ layer_textures = EmptyEntries
  /\ last_eval = NoEval
  /\ layer_result = EmptyResult
  /\ overlay_opt = NoOverlay
  /\ all_placed = <<>>
  /\ total_eval = 0
  /\ total_reject = 0
  /\ returned = EmptyResult
  /\ prev_events = <<>>
  /\ prev_returned = EmptyResult
  /\ calls = <<>>
  /\ ThreadsIdle
  /\ CompilerIdle
  /\ ConfigIdle
  /\ RuntimeIdle
  /\ ovl = <<>>
  /\ picking = <<>>
  /\ \E radius \in PoissonRadii : \E extent \in PoissonExtents :
       poisson = [radius |-> radius, extent |-> extent, at |-> "start", sampler |-> NoSampler,
                  points |-> <<>>, active |-> <<0, 0>>, tries |-> 0, found_any |-> FALSE,
                  retired |-> {}, passes |-> 0]

poissonFrame == <<plan, seed, wanted, run, pc, overlays, events, layerVars, totalVars, prevVars,
                  cache, next_pid, calls, threadVars, compVars, cfgVars, rtVars, ovl, picking>>

\* PoissonDiskSampling::generate: the radius test, then the sampler and
\* its first point.
PoissonStart ==
  /\ pc = "poisson"
  /\ poisson.at = "start"
  /\ IF ~poisson.radius.finite \/ poisson.radius.v <= 0
     THEN /\ poisson' = [poisson EXCEPT !.at = "done"]
          /\ rng' = rng
     ELSE LET sa == PoissonDiskSampler_new(poisson.radius.v, poisson.extent)
              half_x == poisson.extent[1] \div 2
              half_y == poisson.extent[2] \div 2
              u == rand01(rng)
              v == rand01(u.rng)
              initial == <<-half_x + (u.value * (2 * half_x)) \div Scale,
                           -half_y + (v.value * (2 * half_y)) \div Scale>>
          IN /\ poisson' = [poisson EXCEPT !.at = "loop", !.sampler = add_point(sa, initial),
                                           !.points = <<initial>>]
             /\ rng' = v.rng
  /\ UNCHANGED poissonFrame

\* `while let Some(active) = self.active_list.pop_front()`
PoissonPop ==
  /\ pc = "poisson"
  /\ poisson.at = "loop"
  /\ IF poisson.sampler.active_list = <<>>
     THEN poisson' = [poisson EXCEPT !.at = "done"]
     ELSE poisson' = [poisson EXCEPT !.at = "tries",
                                     !.active = Head(poisson.sampler.active_list),
                                     !.sampler.active_list = Tail(@),
                                     !.tries = 0, !.found_any = FALSE]
  /\ UNCHANGED <<poissonFrame, rng>>

\* One pass of `for _ in 0..5`.
PoissonAround ==
  /\ pc = "poisson"
  /\ poisson.at = "tries"
  /\ poisson.tries < TriesPerPass
  /\ LET r == generate_around_point(poisson.sampler, rng, poisson.active, MAX_ATTEMPTS)
     IN /\ rng' = r.rng
        /\ IF r.some
           THEN poisson' = [poisson EXCEPT !.sampler = add_point(@, r.p),
                                           !.points = Append(@, r.p),
                                           !.found_any = TRUE, !.tries = @ + 1]
           ELSE poisson' = [poisson EXCEPT !.tries = @ + 1]
  /\ UNCHANGED poissonFrame

\* The end of a pass that puts the active point back whatever was found.
PoissonPassEnd_AlwaysRequeue ==
  /\ pc = "poisson"
  /\ poisson.at = "tries"
  /\ poisson.tries = TriesPerPass
  /\ poisson' = [poisson EXCEPT !.at = "loop", !.passes = @ + 1,
                                !.sampler.active_list = Append(@, poisson.active)]
  /\ UNCHANGED <<poissonFrame, rng>>
\* `if found_any { self.active_list.push_back(active) }`
PoissonPassEnd ==
  /\ pc = "poisson"
  /\ poisson.at = "tries"
  /\ poisson.tries = TriesPerPass
  /\ IF poisson.found_any
     THEN poisson' = [poisson EXCEPT !.at = "loop", !.passes = @ + 1,
                                     !.sampler.active_list = Append(@, poisson.active)]
     ELSE poisson' = [poisson EXCEPT !.at = "loop", !.passes = @ + 1,
                                     !.retired = @ \cup {poisson.active}]
  /\ UNCHANGED <<poissonFrame, rng>>

PoissonNext ==
  \/ PoissonStart
  \/ PoissonPop
  \/ PoissonAround
  \/ PoissonPassEnd

SpecPoisson == PoissonInit /\ [][PoissonNext]_vars

\* ------------------------------------------------- selection on its own
\* The evaluation of kind number i: blocked (weight 0.0), or allowed with
\* a weight of 0.0, 0.5 or 1.0.
KindNames == <<"k1", "k2", "k3", "k4", "k5", "k6">>
KindEvaluations(i) ==
  {KindEvaluation(MkKind(KindNames[i], SpecAlways), FALSE, 0)}
    \cup {KindEvaluation(MkKind(KindNames[i], SpecAlways), TRUE, w) : w \in {0, Scale \div 2, Scale}}
PickResults ==
  UNION {{r \in [1..n -> UNION {KindEvaluations(i) : i \in 1..n}] :
            \A i \in 1..n : r[i] \in KindEvaluations(i)} : n \in 1..MaxKinds}

PickInit ==
  /\ pc = "picking"
  /\ plan = <<>>
  /\ seed \in 0..(RngMod - 1)
  /\ rng = seed
  /\ wanted = {}
  /\ run = 1
  /\ cache = EmptyEntries
  /\ next_pid = 1
  /\ overlays = EmptyEntries
  /\ events = <<>>
  /\ li = 0
  /\ ki = 1
  /\ kind_info = <<>>
  /\ positions = <<>>
  /\ pi = 1
  /\ placed = <<>>
  /\ layer_textures = EmptyEntries
  /\ last_eval = NoEval
  /\ layer_result = EmptyResult
  /\ overlay_opt = NoOverlay
  /\ all_placed = <<>>
  /\ total_eval = 0
  /\ total_reject = 0
  /\ returned = EmptyResult
  /\ prev_events = <<>>
  /\ prev_returned = EmptyResult
  /\ calls = <<>>
  /\ ThreadsIdle
  /\ CompilerIdle
  /\ ConfigIdle
  /\ RuntimeIdle
  /\ poisson = <<>>
  /\ ovl = <<>>
  /\ \E results \in PickResults :
       picking = [results |-> results, by |-> "", picked |-> NoKind]

pickFrame == <<plan, seed, wanted, run, pc, overlays, events, layerVars, totalVars, prevVars,
               cache, next_pid, calls, threadVars, compVars, cfgVars, rtVars, poisson, ovl>>

\* A call of pick_weighted_random(&results, rng).
PickWeightedRandom ==
  /\ pc = "picking"
  /\ picking.by = ""
  /\ LET r == pick_weighted_random(picking.results, rng)
     IN /\ picking' = [picking EXCEPT !.by = "WeightedRandom", !.picked = r.picked]
        /\ rng' = r.rng
  /\ UNCHANGED pickFrame

\* A call of pick_highest_probability(&results).
PickHighestProbability ==
  /\ pc = "picking"
  /\ picking.by = ""
  /\ picking' = [picking EXCEPT !.by = "HighestProbability",
                                !.picked = pick_highest_probability(picking.results)]
  /\ UNCHANGED <<pickFrame, rng>>

PickNext ==
  \/ PickWeightedRandom
  \/ PickHighestProbability

SpecSelection == PickInit /\ [][PickNext]_vars

\* ---------------------------------------------------- overlay on its own
\* A mask built from world positions of a domain and sampled afterwards.
OverlayCenters == {<<0, 0>>, <<2 * Scale, 0>>, <<-Scale, Scale>>}
OverlayOffsets == {<<-Scale, -Scale>>, <<0, 0>>, <<Scale, Scale \div 2>>, <<-2 * Scale, Scale>>}
OverlaySizes == {<<2, 2>>, <<4, 2>>, <<4, 4>>}
Channels == {"R", "G", "B", "A"}
WorldPoints(center) == {<<center[1] + o[1], center[2] + o[2]>> : o \in OverlayOffsets}

OverlayInit ==
  /\ pc = "overlay"
  /\ RunIdle
  /\ ThreadsIdle
  /\ CompilerIdle
  /\ ConfigIdle
  /\ RuntimeIdle
  /\ poisson = <<>>
  /\ picking = <<>>
  /\ \E center \in OverlayCenters, size \in OverlaySizes, radius \in 0..MaxStamp :
       \E p1, p2 \in WorldPoints(center) :
         ovl = [extent |-> Config.domain_extent, center |-> center, width |-> size[1],
                height |-> size[2], radius |-> radius, positions |-> <<p1, p2>>,
                at |-> "start", mask |-> OverlayTexture(<<0, 0>>, 0, 0, {}),
                probe |-> <<0, 0>>, channel |-> "R", value |-> 0]

overlayFrame == <<runVars, cache, next_pid, calls, threadVars, compVars, cfgVars, rtVars,
                  poisson, picking>>

\* The mask of a layer built from its placed positions.
OverlayBuild ==
  /\ pc = "overlay"
  /\ ovl.at = "start"
  /\ ovl' = [ovl EXCEPT !.at = "built",
                        !.mask = build_overlay_mask_from_positions_in_domain(
                                   ovl.extent, ovl.center, ovl.positions,
                                   ovl.width, ovl.height, ovl.radius)]
  /\ UNCHANGED overlayFrame

\* A field of a later layer samples the mask at a world position.
OverlaySample ==
  /\ pc = "overlay"
  /\ ovl.at = "built"
  /\ \E p \in WorldPoints(ovl.center), channel \in Channels :
       ovl' = [ovl EXCEPT !.at = "sampled", !.probe = p, !.channel = channel,
                          !.value = TextureSample(ovl.mask, channel, p)]
  /\ UNCHANGED overlayFrame

OverlayNext ==
  \/ OverlayBuild
  \/ OverlaySample

SpecOverlay == OverlayInit /\ [][OverlayNext]_vars

TypeOK ==
  /\ pc \in {"run_start", "layer_loop", "compile", "eval", "layer_return", "overlay_insert",
             "returned", "cache", "threads", "compiler", "compiled", "config", "constructed", "rejected", "runtime", "poisson",
             "picking", "overlay"}
  /\ run \in {1, 2}
  /\ rng \in 0..(RngMod - 1)


\* =================================================================== claims
FullSink == wanted = EventKinds
EventsOfType(t) == SelectSeq(events, LAMBDA e : e.type = t)
LayerHasKinds(L) == L \in 0..(Len(plan) - 1) /\ plan[L + 1].kinds # <<>>
\* Layer L of the running execution has been left (its LayerFinished sent).
LayerLeft(L) == pc # "run_start" /\ (li > L \/ (li = L /\ pc = "overlay_insert"))

LayerScoped == SelectSeq(events, LAMBDA e : e.type \notin {"Warning", "RunStarted", "RunFinished"})
PhaseRank(t) ==
  CASE t = "LayerStarted" -> 0
    [] t \in {"PositionEvaluated", "PlacementMade"} -> 1
    [] t = "OverlayGenerated" -> 2
    [] t = "LayerFinished" -> 3

\* C1: with a sink that wants every event kind, the events of a layer that
\* has kinds come as LayerStarted, then PositionEvaluated/PlacementMade,
\* then at most one OverlayGenerated, then LayerFinished; no other event of
\* the layer lies outside that bracket, and layers come in plan order.
C1_LayerEventOrder ==
  FullSink =>
    LET evs == LayerScoped
    IN /\ \A i, j \in 1..Len(evs) :
            i < j =>
              /\ evs[i].index <= evs[j].index
              /\ evs[i].index = evs[j].index =>
                   /\ PhaseRank(evs[i].type) <= PhaseRank(evs[j].type)
                   /\ PhaseRank(evs[i].type) = PhaseRank(evs[j].type) => PhaseRank(evs[i].type) = 1
       /\ \A i \in 1..Len(evs) :
            LayerHasKinds(evs[i].index) =>
              \E j \in 1..i : evs[j].index = evs[i].index /\ evs[j].type = "LayerStarted"
       /\ \A L \in 0..(Len(plan) - 1) :
            LayerHasKinds(L) /\ LayerLeft(L) =>
              /\ \E i \in 1..Len(evs) : evs[i].index = L /\ evs[i].type = "LayerStarted"
              /\ \E i \in 1..Len(evs) : evs[i].index = L /\ evs[i].type = "LayerFinished"

\* A finished run of two layers with placements in the second layer and an
\* overlay event, seen by a full sink.
C1_Witness ==
  /\ FullSink
  /\ pc = "returned"
  /\ Len(plan) = 2
  /\ \E i \in 1..Len(events) : events[i].type = "PlacementMade" /\ events[i].index = 1
  /\ \E i \in 1..Len(events) : events[i].type = "OverlayGenerated"
  /\ \E i \in 1..Len(events) : events[i].type = "Warning"

\* C2: every PlacementMade comes right after the PositionEvaluated of the
\* same layer and position, so no PositionEvaluated is followed by two.
C2_PlacementAfterEvaluation ==
  FullSink =>
    \A i \in 1..Len(events) :
      events[i].type = "PlacementMade" =>
        /\ i > 1
        /\ events[i - 1].type = "PositionEvaluated"
        /\ events[i - 1].index = events[i].index
        /\ events[i - 1].id = events[i].id
        /\ events[i - 1].position = events[i].placement.position

\* Two placements in one layer, and a rejected candidate, seen by a full sink.
C2_Witness ==
  /\ FullSink
  /\ \E i, j \in 1..Len(events) :
       /\ i < j
       /\ events[i].type = "PlacementMade"
       /\ events[j].type = "PlacementMade"
       /\ events[i].index = events[j].index
  /\ \E i \in 1..(Len(events) - 1) :
       events[i].type = "PositionEvaluated" /\ events[i + 1].type # "PlacementMade"

RunBracketed ==
  /\ Len(events) >= 2
  /\ events[1].type = "RunStarted"
  /\ events[Len(events)].type = "RunFinished"
  /\ events[Len(events)].result = returned
  /\ Len(EventsOfType("RunStarted")) = 1
  /\ Len(EventsOfType("RunFinished")) = 1

\* C3: run_plan terminates for every plan, and at the return the stream a
\* verbose sink received starts with the only RunStarted and ends with the
\* only RunFinished, which carries the returned RunResult.
C3_RunTerminatesBracketed ==
  /\ (pc = "run_start") ~> (pc = "returned")
  /\ [](pc = "returned" => RunBracketed)

\* Returned runs of the degenerate plans: no layer; a layer without kinds, a
\* layer whose only kind does not compile, a zero-sized overlay.
C3_Witness ==
  /\ FullSink
  /\ pc = "returned"
  /\ RunBracketed
  /\ \/ plan = <<>>
     \/ /\ Len(plan) = 2
        /\ plan[1].kinds = <<>>
        /\ \E i \in 1..Len(events) :
             events[i].type = "Warning" /\ events[i].message = <<"Overlay size is zero; skipping overlay">>

\* C4: two executions of run_plan on the same plan, config, base textures
\* and seed, each with a fresh program cache and the same sink filter,
\* return the same RunResult and send the same event stream.
C4_RunsIdentical ==
  (run = 2 /\ pc = "returned") => (returned = prev_returned /\ events = prev_events)

\* Some Gate field of the kind's program samples to a value <= 0 at the
\* position, in the texture view of the layer being evaluated.
GateBlocked(info, position) ==
  \E f \in DOMAIN info.program.nodes :
    /\ is_gate(info.program.nodes[f])
    /\ sample(info.program, layer_textures, f, position) <= 0

\* C5: a kind with a Gate field sampling to <= 0 at the candidate evaluated
\* last has allowed = false and weight 0 in the results and in the
\* PositionEvaluated event, is not the kind picked there, and no placement
\* and no PlacementMade of the layer at that position carries its id.
C5_BlockedKindNeverPlaced ==
  last_eval.valid =>
    \A i \in 1..Len(kind_info) :
      GateBlocked(kind_info[i], last_eval.position) =>
        LET id == kind_info[i].kind.id
        IN /\ ~last_eval.results[i].allowed
           /\ last_eval.results[i].weight = 0
           /\ ~(last_eval.picked.some /\ last_eval.picked.id = id)
           /\ \A j \in 1..Len(placed) :
                placed[j].position = last_eval.position => placed[j].kind_id # id
           /\ \A j \in 1..Len(events) :
                events[j].index = li =>
                  /\ (events[j].type = "PlacementMade"
                        /\ events[j].placement.position = last_eval.position)
                       => events[j].placement.kind_id # id
                  /\ (events[j].type = "PositionEvaluated"
                        /\ events[j].position = last_eval.position)
                       => /\ ~events[j].evaluations[i].allowed
                          /\ events[j].evaluations[i].weight = 0

\* A HighestProbability layer places another kind at a candidate where a
\* kind is blocked, after a WeightedRandom layer did the same.
C5_Witness ==
  /\ FullSink
  /\ last_eval.valid
  /\ CurLayer.selection_strategy = "HighestProbability"
  /\ last_eval.picked.some
  /\ \E i \in 1..Len(kind_info) : GateBlocked(kind_info[i], last_eval.position)
  /\ \E j \in 1..(Len(events) - 1) :
       /\ events[j].type = "PositionEvaluated"
       /\ events[j + 1].type = "PlacementMade"
       /\ plan[events[j].index + 1].selection_strategy = "WeightedRandom"
       /\ \E i \in 1..Len(events[j].evaluations) : ~events[j].evaluations[i].allowed

ResultOK(r) ==
  /\ r.positions_evaluated >= Len(r.placements)
  /\ r.positions_rejected = r.positions_evaluated - Len(r.placements)
LayerResults == [i \in 1..Len(EventsOfType("LayerFinished")) |-> EventsOfType("LayerFinished")[i].result]

\* C6: the result carried by every LayerFinished, the accumulated totals
\* and the returned RunResult have evaluated >= placements and rejected =
\* evaluated - placements; the totals are the sums of the per-layer
\* counters, and RunFinished carries them.
C6_CountersConsistent ==
  ("LayerFinished" \in wanted /\ pc # "run_start") =>
    /\ \A i \in 1..Len(LayerResults) : ResultOK(LayerResults[i])
    /\ total_eval = SumSeq([i \in 1..Len(LayerResults) |-> LayerResults[i].positions_evaluated])
    /\ total_reject = SumSeq([i \in 1..Len(LayerResults) |-> LayerResults[i].positions_rejected])
    /\ Len(all_placed) = SumSeq([i \in 1..Len(LayerResults) |-> Len(LayerResults[i].placements)])
    /\ pc = "returned" =>
         /\ ResultOK(returned)
         /\ returned = RunResult(all_placed, total_eval, total_reject)
         /\ events[Len(events)].result = returned

\* A returned run of two layers that both placed something, one of them
\* with a rejected candidate as well.
C6_Witness ==
  /\ "LayerFinished" \in wanted
  /\ pc = "returned"
  /\ Len(LayerResults) = 2
  /\ \A i \in 1..2 : LayerResults[i].placements # <<>>
  /\ \E i \in 1..2 : /\ LayerResults[i].placements # <<>>
                      /\ LayerResults[i].positions_rejected > 0

PlacementsMade(L) ==
  LET made == SelectSeq(events, LAMBDA e : e.type = "PlacementMade" /\ (L = -1 \/ e.index = L))
  IN [i \in 1..Len(made) |-> made[i].placement]

\* C7: the placements of the PlacementMade events, in emission order, are
\* the accumulated placements followed by those of the layer under way, and
\* at the return RunResult.placements; the placements of a layer's
\* LayerFinished result are the PlacementMade events of that layer.
C7_PlacementsMatchEvents ==
  (FullSink /\ pc # "run_start") =>
    /\ PlacementsMade(-1) = all_placed \o (IF pc \in {"eval", "layer_return"} THEN placed ELSE <<>>)
    /\ pc = "returned" => PlacementsMade(-1) = returned.placements
    /\ \A i \in 1..Len(events) :
         events[i].type = "LayerFinished" =>
           events[i].result.placements = PlacementsMade(events[i].index)

\* A returned run whose two layers each placed something, of different kinds.
C7_Witness ==
  /\ FullSink
  /\ pc = "returned"
  /\ PlacementsMade(0) # <<>>
  /\ PlacementsMade(1) # <<>>
  /\ PlacementsMade(0) # PlacementsMade(1)
  /\ Len(returned.placements) >= 3

\* The index of the last layer before layer L that generated an overlay of
\* the name, -1 when there is none.
LastOverlayBefore(name, L) ==
  LET idx == {events[j].index : j \in {k \in 1..Len(events) :
                 /\ events[k].type = "OverlayGenerated"
                 /\ events[k].overlay.name = name
                 /\ events[k].index < L}}
  IN IF idx = {} THEN -1 ELSE CHOOSE m \in idx : \A n \in idx : n <= m
OverlayNames == {MaskName(plan[i].id) : i \in 1..Len(plan)}

\* C8: an overlay enters the accumulated map only when the LayerFinished of
\* its layer has been sent; the texture view of a layer holds, under each
\* mask name, the overlay of the last earlier layer of the same run that
\* generated one, and nothing of the layer itself, of a later layer or of
\* another run.
C8_OverlayForLaterLayersOnly ==
  /\ [][\A name \in DOMAIN overlays' :
          (name \notin DOMAIN overlays \/ overlays'[name] # overlays[name]) =>
            /\ overlays'[name].run = run
            /\ overlays'[name].layer = li
            /\ name = MaskName(CurLayer.id)
            /\ "LayerFinished" \in wanted =>
                 \E j \in 1..Len(events) :
                   /\ events[j].type = "LayerFinished"
                   /\ events[j].index = li
                   /\ events[j].overlay = OverlaySummary(name, overlays'[name].width,
                                                         overlays'[name].height)]_vars
  /\ [](\A name \in DOMAIN layer_textures :
          layer_textures[name].kind = "overlay" =>
            /\ layer_textures[name].run = run
            /\ layer_textures[name].layer < li)
  /\ []((FullSink /\ pc = "eval") =>
          \A name \in OverlayNames :
            IF LastOverlayBefore(name, li) = -1
            THEN name \notin DOMAIN layer_textures
            ELSE /\ name \in DOMAIN layer_textures
                 /\ layer_textures[name].kind = "overlay"
                 /\ layer_textures[name].layer = LastOverlayBefore(name, li))

\* In the second execution a kind gated on mask_A is allowed in a later
\* layer at a candidate the overlay of layer A covers, after it was blocked
\* in layer A itself.
C8_Witness ==
  /\ FullSink
  /\ run = 2
  /\ pc = "eval"
  /\ li = 1
  /\ plan[1].id = "A"
  /\ "mask_A" \in DOMAIN layer_textures
  /\ last_eval.valid
  /\ \E i \in 1..Len(kind_info) :
       /\ kind_info[i].kind.id = "gated"
       /\ last_eval.results[i].allowed
  /\ \E j \in 1..Len(events) :
       /\ events[j].type = "PositionEvaluated"
       /\ events[j].index = 0
       /\ \E i \in 1..Len(events[j].evaluations) :
            events[j].evaluations[i].kind_id = "gated" /\ ~events[j].evaluations[i].allowed

SameRequest(a, b) ==
  /\ a.op = "get_or_compile"
  /\ b.op = "get_or_compile"
  /\ a.kind.id = b.kind.id
  /\ a.kind.spec.nodes = b.kind.spec.nodes
  /\ a.kind.spec.semantics = b.kind.spec.semantics
  /\ a.opts = b.opts

\* C9: of two consecutive get_or_compile calls with the same kind id, spec
\* and options, the second returns the program the first returned (the same
\* allocation, node set and topological order) and leaves the cache as the
\* first call left it.
C9_SecondCallHitsCache ==
  \A i \in 1..(Len(calls) - 1) :
    (SameRequest(calls[i], calls[i + 1]) /\ calls[i].ok) =>
      /\ calls[i + 1].ok
      /\ calls[i + 1].program = calls[i].program
      /\ calls[i + 1].program.nodes = calls[i].program.nodes
      /\ calls[i + 1].program.topo = calls[i].program.topo
      /\ calls[i + 1].after = calls[i + 1].before
      /\ calls[i + 1].before = calls[i].after
      /\ get_for_kind(calls[i + 1].after, calls[i].kind.id) = SomeProgram(calls[i].program)

\* Two consecutive calls for the kind with two independent nodes, the first
\* of which compiled and inserted a program.
C9_Witness ==
  \E i \in 1..(Len(calls) - 1) :
    /\ SameRequest(calls[i], calls[i + 1])
    /\ calls[i].ok
    /\ calls[i].kind.id = "rock"
    /\ calls[i].after # calls[i].before
    /\ Len(calls[i].program.topo) = 2

\* C10: a get_or_compile call for a kind id whose entry holds a program
\* compiled from another spec or other options returns a newly compiled
\* program of the spec and options given and leaves it as the entry of
\* the kind id, so that get_for_kind returns it.
C10_ChangedSpecRecompiles ==
  \A i \in 1..Len(calls) :
    LET c == calls[i]
        id == c.kind.id
    IN (/\ c.op = "get_or_compile"
        /\ c.ok
        /\ id \in DOMAIN c.before
        /\ c.before[id].program.nodes # ProgramNodes(c.kind.spec, c.opts)) =>
         /\ c.program.nodes = ProgramNodes(c.kind.spec, c.opts)
         /\ c.program # c.before[id].program
         /\ get_for_kind(c.after, id) = SomeProgram(c.program)

AllReturned == \A t \in Threads : tpc[t] = "done"
\* The callers on the kind id of thread t, when no caller on that id asks
\* with another fingerprint; the empty set otherwise.
SameRequestCallers(t) ==
  IF \A u \in Threads : ThreadKey(u) = ThreadKey(t) => ThreadFp(u) = ThreadFp(t)
  THEN {u \in Threads : ThreadKey(u) = ThreadKey(t)}
  ELSE {}

\* C11: when all concurrent get_or_compile calls have returned, the callers
\* that asked for the same kind id with the same spec and options (no other
\* fingerprint for the id in play) all hold the same program instance, and
\* it is the one the cache stores for the id.
C11_CallersShareOneProgram ==
  (pc = "threads" /\ AllReturned) =>
    \A t \in Threads : \A u \in SameRequestCallers(t) :
      /\ tret[t].kind = "ok"
      /\ tret[u].kind = "ok"
      /\ tret[u].program = tret[t].program
      /\ get_for_kind(cache, ThreadKey(t)) = SomeProgram(tret[t].program)

\* Two callers with the same request both missed under the read lock and
\* both compiled; all have returned.
C11_Witness ==
  /\ pc = "threads"
  /\ AllReturned
  /\ \E t, u \in Threads :
       /\ t # u
       /\ u \in SameRequestCallers(t)
       /\ tprog[t] # NoProgram
       /\ tprog[u] # NoProgram
       /\ tprog[t] # tprog[u]

\* C12: among concurrent get_or_compile calls with the same kind id, spec
\* and options the compiler runs at most once, and every compiler run is
\* made by a thread that holds the write lock.
C12_CompilesAtMostOnce ==
  pc = "threads" =>
    /\ \A i, j \in 1..Len(compiles) :
         (compiles[i].key = compiles[j].key /\ compiles[i].fp = compiles[j].fp) => i = j
    /\ \A i \in 1..Len(compiles) : compiles[i].exclusive

\* C13: a get_or_compile call that finds the lock poisoned returns
\* Err(Compile("cache poisoned")) and does not panic.
C13_PoisonedLockReturnsError ==
  pc = "threads" =>
    \A t \in Threads :
      tret[t].poisoned => (tret[t].kind = "err" /\ tret[t].err = <<"cache poisoned">>)

\* The nodes reached from the nodes of S by following inputs up to n times.
RECURSIVE ReachFrom(_, _, _)
ReachFrom(spec, S, n) ==
  IF n = 0 THEN S
  ELSE ReachFrom(spec,
                 S \cup {i \in DOMAIN spec.nodes :
                           \E id \in S : i \in Range(NodeInputs(spec.nodes[id]))},
                 n - 1)
DirectInputs(spec, id) == Range(NodeInputs(spec.nodes[id])) \cap DOMAIN spec.nodes
UnknownInput(spec) ==
  \E id \in DOMAIN spec.nodes : ~(Range(NodeInputs(spec.nodes[id])) \subseteq DOMAIN spec.nodes)
VariadicWithoutInput(spec) ==
  \E id \in DOMAIN spec.nodes :
    spec.nodes[id].op \in {"Add", "Sub", "Mul", "Min", "Max"} /\ Len(spec.nodes[id].inputs) = 0
UnaryNotOneInput(spec) ==
  \E id \in DOMAIN spec.nodes :
    /\ spec.nodes[id].op \in {"Invert", "Scale", "Clamp", "SmoothStep", "Pow", "EdtNormalize"}
    /\ Len(spec.nodes[id].inputs) # 1
Cyclic(spec) ==
  \E id \in DOMAIN spec.nodes :
    id \in ReachFrom(spec, DirectInputs(spec, id), Cardinality(DOMAIN spec.nodes))
Defective(spec) ==
  UnknownInput(spec) \/ VariadicWithoutInput(spec) \/ UnaryNotOneInput(spec) \/ Cyclic(spec)
ListsInputTwice(spec) ==
  \E id \in DOMAIN spec.nodes : \E i, j \in 1..Len(NodeInputs(spec.nodes[id])) :
    i # j /\ NodeInputs(spec.nodes[id])[i] = NodeInputs(spec.nodes[id])[j]

\* C14: compile fails with a Compile error exactly on the specs that have an
\* unknown input, a variadic node without inputs, a unary node whose input
\* count is not one, or a cycle; every other spec compiles, also one whose
\* node lists the same input twice.
C14_CompileFailsExactlyOnDefects ==
  pc = "compiled" =>
    /\ cresult.ok <=> ~Defective(cspec)
    /\ ~cresult.ok => cresult.err # <<>>

\* A spec of three nodes with a node that lists one input twice compiled.
C14_Witness ==
  /\ pc = "compiled"
  /\ cresult.ok
  /\ ListsInputTwice(cspec)
  /\ Cardinality(DOMAIN cspec.nodes) = 3

PositionIn(topo, id) == CHOOSE i \in 1..Len(topo) : topo[i] = id

\* C15: the topological order of a compiled program holds every node of the
\* spec exactly once, and every node stands after each of its inputs, also
\* when it lists an input several times.
C15_TopoOrderSound ==
  (pc = "compiled" /\ cresult.ok) =>
    LET topo == cresult.program.topo
    IN /\ Len(topo) = Cardinality(DOMAIN cspec.nodes)
       /\ Range(topo) = DOMAIN cspec.nodes
       /\ \A id \in DOMAIN cspec.nodes : \A i \in Range(NodeInputs(cspec.nodes[id])) :
            PositionIn(topo, i) < PositionIn(topo, id)

\* A chain of three nodes compiled whose last node lists its input twice,
\* with a node map whose iteration order is not a topological order.
C15_Witness ==
  /\ pc = "compiled"
  /\ cresult.ok
  /\ cresult.program.topo = <<"k", "x", "y">>
  /\ cresult.program.iter = <<"y", "x", "k">>
  /\ cspec.nodes["x"] = NInvert(<<"k">>)
  /\ cspec.nodes["y"] = NAdd(<<"x", "x">>)

TagsSeveralProbabilities(kind) ==
  Cardinality({f \in DOMAIN kind.spec.semantics : kind.spec.semantics[f] = "Probability"}) > 1
PlanKinds == UNION {Range(plan[l].kinds) : l \in 1..Len(plan)}
EvaluatedKindIds(e) == [j \in 1..Len(e.evaluations) |-> e.evaluations[j].kind_id]

\* C16: a kind that tags more than one field as Probability is dropped
\* during a plan run: it is in no PositionEvaluated evaluation list and in
\* no placement.
C16_MultiProbabilityKindDropped ==
  \A k \in PlanKinds :
    TagsSeveralProbabilities(k) =>
      /\ \A i \in 1..Len(events) :
           /\ events[i].type = "PositionEvaluated" => k.id \notin Range(EvaluatedKindIds(events[i]))
           /\ events[i].type = "PlacementMade" => events[i].placement.kind_id # k.id
      /\ \A i \in 1..Len(all_placed) : all_placed[i].kind_id # k.id

FailsToCompile(kind) == Defective(kind.spec)
CompilingKindIds(layer) ==
  LET ks == SelectSeq(layer.kinds, LAMBDA k : ~FailsToCompile(k))
  IN [j \in 1..Len(ks) |-> ks[j].id]
\* The compile loop of layer L of the running execution has gone past its kind number n.
KindPassed(L, n) ==
  /\ pc # "run_start"
  /\ \/ li > L
     \/ li = L /\ pc = "compile" /\ ki > n
     \/ li = L /\ pc \in {"eval", "layer_return", "overlay_insert"}
EventsOfLayer(t, L) == SelectSeq(events, LAMBDA e : e.type = t /\ e.index = L)

\* C17: a kind that fails to compile shows as a Warning event for that kind
\* and nothing else: every PositionEvaluated of the layer lists exactly the
\* layer's other kinds, one PositionEvaluated per candidate, no placement
\* names the failed kind, and the run goes on to finish every layer.
C17_CompileFailureOnlyWarns ==
  /\ \A i \in 1..Len(events) :
       /\ events[i].type = "PositionEvaluated" =>
            EvaluatedKindIds(events[i]) = CompilingKindIds(plan[events[i].index + 1])
       /\ events[i].type = "PlacementMade" =>
            events[i].placement.kind_id \in Range(CompilingKindIds(plan[events[i].index + 1]))
  /\ \A i \in 1..Len(all_placed) :
       \A k \in PlanKinds : FailsToCompile(k) => all_placed[i].kind_id # k.id
  /\ FullSink =>
       \A L \in 0..(Len(plan) - 1) :
         /\ \A n \in 1..Len(plan[L + 1].kinds) :
              (FailsToCompile(plan[L + 1].kinds[n]) /\ KindPassed(L, n)) =>
                \E i \in 1..Len(events) :
                  /\ events[i].type = "Warning"
                  /\ events[i].context = <<"layer", plan[L + 1].id, "kind", plan[L + 1].kinds[n].id>>
                  /\ Head(events[i].message) = "Failed to compile kind"
         /\ (LayerLeft(L) /\ CompilingKindIds(plan[L + 1]) # <<>>) =>
              Len(EventsOfLayer("PositionEvaluated", L)) = plan[L + 1].count
         /\ pc = "returned" => Len(EventsOfLayer("LayerFinished", L)) = 1

\* A finished run whose first layer holds a kind that failed to compile and
\* a kind that was placed, and whose second layer was evaluated.
C17_Witness ==
  /\ FullSink
  /\ pc = "returned"
  /\ Len(plan) = 2
  /\ \E n \in 1..Len(plan[1].kinds) : FailsToCompile(plan[1].kinds[n])
  /\ \E i \in 1..Len(events) :
       events[i].type = "Warning" /\ Head(events[i].message) = "Failed to compile kind"
  /\ EventsOfLayer("PlacementMade", 0) # <<>>
  /\ EventsOfLayer("PositionEvaluated", 1) # <<>>

\* C18: a layer without kinds is skipped with a warning, and the sink still
\* gets its LayerStarted and then a LayerFinished with an empty result.
C18_EmptyLayerStartedAndFinished ==
  FullSink =>
    \A L \in 0..(Len(plan) - 1) :
      (plan[L + 1].kinds = <<>> /\ LayerLeft(L)) =>
        /\ \E i \in 1..Len(events) :
             events[i].type = "Warning" /\ events[i].context = <<"layer", plan[L + 1].id>>
        /\ \E i, j \in 1..Len(events) :
             /\ i < j
             /\ events[i].type = "LayerStarted" /\ events[i].index = L
             /\ events[j].type = "LayerFinished" /\ events[j].index = L
             /\ events[j].result = EmptyResult

AnyNotPositive(config) ==
  \/ (~config.domain_extent[1].nan /\ config.domain_extent[1].v <= 0)
  \/ (~config.domain_extent[2].nan /\ config.domain_extent[2].v <= 0)
  \/ (~config.chunk_extent.nan /\ config.chunk_extent.v <= 0)
  \/ (~config.raster_cell_size.nan /\ config.raster_cell_size.v <= 0)

\* C19: validate gives InvalidConfig exactly when an extent component, the
\* chunk extent or the raster cell size is <= 0; try_new hands that error
\* on and makes no runner, so no run starts and the sink stays empty.
C19_InvalidConfigMakesNoRunner ==
  /\ validate(rconfig).ok <=> ~AnyNotPositive(rconfig)
  /\ ~validate(rconfig).ok => validate(rconfig).err[1] = "InvalidConfig"
  /\ tried_new.tried =>
       /\ tried_new.ok <=> ~AnyNotPositive(rconfig)
       /\ tried_new.ok => tried_new.runner = SomeRunner(rconfig)
       /\ ~tried_new.ok =>
            /\ tried_new.err = validate(rconfig).err
            /\ tried_new.runner = NoRunner
            /\ pc = "rejected"
            /\ events = <<>>
  /\ pc \in {"run_start", "layer_loop", "returned"} => tried_new.ok

\* try_new turned down a config whose only fault is its raster cell size.
C19_Witness ==
  /\ pc = "rejected"
  /\ tried_new.tried
  /\ ~tried_new.ok
  /\ rconfig.raster_cell_size = F32(0)
  /\ rconfig.domain_extent = <<F32(Scale), NaN>>
  /\ rconfig.chunk_extent = F32(1)

RuntimesOfLayer == {runtime_cache[k] : k \in DOMAIN runtime_cache}
BakedOnce(r) ==
  /\ \A key \in DOMAIN r.bakes : r.bakes[key] = 1
  /\ DOMAIN r.bakes = r.baked
\* The fields whose samples come from a raster.
NeedsRaster(r, field) ==
  /\ field \in DOMAIN r.program.nodes
  /\ r.program.nodes[field].force_bake \/ r.program.nodes[field].spec.op = "EdtNormalize"

\* C20: in one FieldRuntime the raster of a force-baked or EdtNormalize
\* field is computed at most once per (field, chunk), and exactly once when
\* the field was sampled in the chunk, however often; a layer holds one
\* runtime per (kind id, chunk id), with the rasters of that chunk only.
C20_BakedOncePerFieldAndChunk ==
  pc = "runtime" =>
    /\ BakedOnce(rt)
    /\ \A key \in DOMAIN rt.samples :
         NeedsRaster(rt, key[1]) => CountOf(rt.bakes, key) = 1
    /\ \A k \in DOMAIN runtime_cache :
         /\ BakedOnce(runtime_cache[k])
         /\ \A key \in DOMAIN runtime_cache[k].samples :
              /\ key[2] = k[2]
              /\ NeedsRaster(runtime_cache[k], key[1]) => CountOf(runtime_cache[k].bakes, key) = 1
         /\ \A key \in runtime_cache[k].baked : key[2] = k[2]

\* A force-baked field over an EdtNormalize field was sampled twice in one
\* chunk by the owner of the runtime, and two candidates of a layer fell
\* into one chunk, where the kind edt sampled its EdtNormalize gate twice.
C20_Witness ==
  /\ pc = "runtime"
  /\ \E k \in DOMAIN runtime_cache :
       /\ k[1] = "edt"
       /\ CountOf(runtime_cache[k].samples, <<"g", k[2]>>) = 2
       /\ CountOf(runtime_cache[k].bakes, <<"g", k[2]>>) = 1
  /\ \E key \in DOMAIN rt.samples :
       /\ rt.samples[key] = 2
       /\ key[1] = "p"
       /\ rt.program.nodes["p"].force_bake
       /\ "g" \in DOMAIN rt.program.nodes
       /\ rt.program.nodes["g"].spec.op = "EdtNormalize"
       /\ <<"g", key[2]>> \in rt.baked
       /\ key \in rt.baked

\* ------------------------------------------------------------ C21 .. C30
PoissonDone == pc = "poisson" /\ poisson.at = "done"
PoissonRadiusUsable == poisson.radius.finite /\ poisson.radius.v > 0
Dist2(p, q) == (p[1] - q[1]) * (p[1] - q[1]) + (p[2] - q[2]) * (p[2] - q[2])

\* C21: a sampler returns the empty list when a component of the domain
\* extent is zero or negative; here for PoissonDiskSampling.
C21_EmptyOnDegenerateExtent ==
  (PoissonDone /\ (poisson.extent[1] <= 0 \/ poisson.extent[2] <= 0)) =>
    poisson.points = <<>>

\* C22: every point a sampler returns lies in the half-open rectangle
\* -w/2 <= x < w/2, -h/2 <= y < h/2, whatever the generator yields; here
\* for PoissonDiskSampling over an extent with positive components.
C22_PointsInsideHalfOpenDomain ==
  (PoissonDone /\ poisson.extent[1] > 0 /\ poisson.extent[2] > 0) =>
    \A i \in 1..Len(poisson.points) :
      LET p == poisson.points[i]
      IN /\ -(poisson.extent[1] \div 2) <= p[1]
         /\ p[1] < poisson.extent[1] \div 2
         /\ -(poisson.extent[2] \div 2) <= p[2]
         /\ p[2] < poisson.extent[2] \div 2

\* C23: PoissonDiskSampling returns nothing for a radius that is not
\* finite or not positive; for a positive radius any two emitted points are
\* at least radius apart and every emitted point still sits in its grid
\* cell (no cell is overwritten).
C23_MinimumDistanceKept ==
  pc = "poisson" =>
    /\ ~PoissonRadiusUsable => poisson.points = <<>>
    /\ PoissonRadiusUsable =>
         /\ \A i, j \in 1..Len(poisson.points) :
              i # j => Dist2(poisson.points[i], poisson.points[j])
                         >= poisson.radius.v * poisson.radius.v
         /\ \A i \in 1..Len(poisson.points) :
              LET g == point_to_grid(poisson.sampler, poisson.points[i])
              IN poisson.sampler.grid[grid_index(poisson.sampler, g[1], g[2])]
                   = SomePoint(poisson.points[i])

\* A finished run with a positive radius that emitted four points or more.
C23_Witness ==
  /\ PoissonDone
  /\ PoissonRadiusUsable
  /\ Len(poisson.points) >= 4

\* C30: PoissonDiskSampler::generate terminates for a finite positive
\* radius: every finished pass over an active point either accepted a new
\* point or took that point off the active list for good, the accepted
\* points never outnumber the grid cells, and so the passes are bounded by
\* twice the number of cells, each pass making at most five searches.
C30_GenerateTerminates ==
  (pc = "poisson" /\ PoissonRadiusUsable /\ poisson.at # "start") =>
    LET cells == poisson.sampler.grid_width * poisson.sampler.grid_height
    IN /\ Len(poisson.points) <= cells
       /\ poisson.retired \subseteq Range(poisson.points)
       /\ \A p \in poisson.retired :
            /\ p \notin Range(poisson.sampler.active_list)
            /\ ~(poisson.at = "tries" /\ poisson.active = p)
       /\ poisson.passes <= (Len(poisson.points) - 1) + Cardinality(poisson.retired)
       /\ poisson.passes < 2 * cells
       /\ poisson.tries <= TriesPerPass

\* A finished run over a positive extent in which every emitted point was
\* taken off the active list after a pass that accepted nothing.
C30_Witness ==
  /\ PoissonDone
  /\ PoissonRadiusUsable
  /\ poisson.extent[1] > 0
  /\ poisson.extent[2] > 0
  /\ Len(poisson.points) >= 3
  /\ poisson.retired = Range(poisson.points)

\* Every kind of the layer under way is blocked at every candidate.
AllKindsBlocked ==
  \A i \in 1..Len(positions) : \A k \in 1..Len(kind_info) :
    ~EvalKind(kind_info[k], layer_textures, positions[i]).allowed

\* The step over one candidate: r is the one draw that decides it.
CandidateStep ==
  (pc = "eval" /\ pi' = pi + 1) =>
    LET max_weight == MaxWeight(last_eval'.results)
        r == rand01(rng)
        accepted == max_weight > 0 /\ r.value < max_weight
    IN /\ accepted <=> Len(placed') = Len(placed) + 1
       /\ ~accepted => placed' = placed /\ rng' = r.rng
       /\ accepted =>
            /\ SubSeq(placed', 1, Len(placed)) = placed
            /\ placed'[Len(placed')].position = positions[pi]
            /\ rng' = IF CurLayer.selection_strategy = "WeightedRandom"
                      THEN rand01(r.rng).rng ELSE r.rng

\* C24: for each candidate one draw r = rand01(rng) decides it, and a
\* placement is made exactly when max_weight > 0 and r < max_weight, one per
\* accepted candidate (the weighted selection then draws once for itself);
\* a layer whose kinds are blocked at every candidate ends with no
\* placement, positions_rejected = positions_evaluated, and max_weight = 0
\* in each of its PositionEvaluated events.
C24_AcceptedByOneDraw ==
  /\ [][CandidateStep]_vars
  /\ []((pc = "layer_return" /\ AllKindsBlocked) =>
          /\ layer_result.placements = <<>>
          /\ layer_result.positions_evaluated = Len(positions)
          /\ layer_result.positions_rejected = layer_result.positions_evaluated
          /\ \A i \in 1..Len(events) :
               (events[i].type = "PositionEvaluated" /\ events[i].index = li) =>
                 events[i].max_weight = 0)

\* A second layer of two candidates with every kind blocked has been
\* evaluated, with both PositionEvaluated events sent, after a first layer
\* in which a candidate was accepted and placed.
C24_Witness ==
  /\ pc = "layer_return"
  /\ li = 1
  /\ all_placed # <<>>
  /\ Len(positions) = 2
  /\ AllKindsBlocked
  /\ Len(EventsOfLayer("PositionEvaluated", li)) = 2

\* The layer under way has no kinds, or none of its kinds compiles.
NothingToPlace ==
  /\ pc \in {"layer_loop", "compile", "eval", "layer_return", "overlay_insert"}
  /\ li < Len(plan)
  /\ \A i \in 1..Len(CurLayer.kinds) : FailsToCompile(CurLayer.kinds[i])

\* C28: a layer without kinds, or with no kind that compiles, leaves the
\* state of the run alone: no step of it draws from the generator, samples a
\* candidate, counts an evaluated position, makes a placement or produces or
\* enters an overlay, whatever overlay size and radius it configures.
C28_DeadLayerLeavesRunUntouched ==
  [][NothingToPlace =>
       /\ rng' = rng
       /\ overlays' = overlays
       /\ positions' = <<>>
       /\ ~overlay_opt'.some
       /\ layer_result'.positions_evaluated = 0
       /\ total_eval' = total_eval
       /\ total_reject' = total_reject
       /\ all_placed' = all_placed]_vars

\* The second layer is about to start after a first layer that has a valid
\* overlay size and radius but no kind that compiles: nothing was drawn and
\* no overlay is there.
C28_Witness ==
  /\ pc = "layer_loop"
  /\ run = 1
  /\ li = 1
  /\ Len(plan) = 2
  /\ plan[1].kinds # <<>>
  /\ \A i \in 1..Len(plan[1].kinds) : FailsToCompile(plan[1].kinds[i])
  /\ plan[1].overlay_mask_size_px = SomeSize(2, 2)
  /\ plan[1].overlay_brush_radius_px = SomeRadius(1)
  /\ plan[2].kinds # <<>>
  /\ rng = seed
  /\ overlays = EmptyEntries

\* C26: over a list holding at least one allowed kind of positive weight,
\* pick_weighted_random returns an allowed kind of positive weight, whatever
\* the draw and the order of the list.
C26_WeightedPickHasPositiveWeight ==
  (/\ pc = "picking"
   /\ picking.by = "WeightedRandom"
   /\ \E i \in 1..Len(picking.results) :
        picking.results[i].allowed /\ picking.results[i].weight > 0) =>
    /\ picking.picked.some
    /\ \E i \in 1..Len(picking.results) :
         /\ picking.results[i].kind.id = picking.picked.id
         /\ picking.results[i].allowed
         /\ picking.results[i].weight > 0

\* C29: a get_or_compile call that fails with a compile error leaves the
\* cache as it was: nothing is inserted, and an entry the kind id had
\* before, compiled from another spec, is still what get_for_kind returns.
C29_FailedCompileKeepsCache ==
  /\ \A i \in 1..Len(calls) :
       (calls[i].op = "get_or_compile" /\ ~calls[i].ok) =>
         /\ calls[i].after = calls[i].before
         /\ get_for_kind(calls[i].after, calls[i].kind.id)
              = get_for_kind(calls[i].before, calls[i].kind.id)
         /\ calls[i].kind.id \in DOMAIN calls[i].before =>
              get_for_kind(calls[i].after, calls[i].kind.id)
                = SomeProgram(calls[i].before[calls[i].kind.id].program)
  /\ (pc = "cache" /\ calls # <<>>) => cache = calls[Len(calls)].after

\* A call for a kind id failed to compile while the cache held a program
\* under that id, put there by an earlier call with another spec.
C29_Witness ==
  \E i \in 2..Len(calls) :
    /\ calls[i].op = "get_or_compile"
    /\ ~calls[i].ok
    /\ calls[i - 1].op = "get_or_compile"
    /\ calls[i - 1].ok
    /\ calls[i - 1].kind.id = calls[i].kind.id
    /\ calls[i].kind.id \in DOMAIN calls[i].before
    /\ get_for_kind(cache, calls[i].kind.id) = SomeProgram(calls[i - 1].program)

\* C27: the sink does not influence the run: an execution with any sink
\* returns the RunResult the execution with the verbose sink returned for
\* the same plan, config, textures and seed, and the events its sink got
\* are the verbose stream restricted to the kinds it wants.
C27_SinkDoesNotInfluenceRun ==
  (run = 2 /\ pc = "returned") =>
    /\ returned = prev_returned
    /\ events = SelectSeq(prev_events, LAMBDA e : e.type \in wanted)

\* The pixel of a world position: floor(((x - cx) / w + 0.5) * W) and
\* floor(((y - cy) / h + 0.5) * H), clamped to the image.
PixelOf(p) ==
  <<ClampI(UnitToPixel(p[1] - ovl.center[1], ovl.extent[1], ovl.width), 0, ovl.width - 1),
    ClampI(UnitToPixel(p[2] - ovl.center[2], ovl.extent[2], ovl.height), 0, ovl.height - 1)>>
InStampedDisc(px) ==
  \E i \in 1..Len(ovl.positions) :
    LET c == PixelOf(ovl.positions[i])
    IN (px[1] - c[1]) * (px[1] - c[1]) + (px[2] - c[2]) * (px[2] - c[2])
         <= ovl.radius * ovl.radius

\* C25: the mask is built and sampled through one pixel mapping, whatever
\* the domain center: channel R at a position the mask was built from is
\* 1.0 for every stamp radius >= 0, channel R at a pixel outside every
\* stamped disc is 0.0, channel A is 1.0, and G and B are 0.0.
C25_OverlaySampledWhereBuilt ==
  (pc = "overlay" /\ ovl.at = "sampled") =>
    /\ (ovl.channel = "R" /\ ovl.probe \in Range(ovl.positions)) => ovl.value = Scale
    /\ (ovl.channel = "R" /\ ~InStampedDisc(PixelOf(ovl.probe))) => ovl.value = 0
    /\ ovl.channel = "A" => ovl.value = Scale
    /\ ovl.channel \in {"G", "B"} => ovl.value = 0

====
